---------------------------- MODULE Spec2Model ----------------------------
(***************************************************************************)
(* State-machine model of the wPAW bridge backend: claims, deposits,       *)
(* withdrawals and swaps over the Redis ledger store, the BullMQ           *)
(* operations queue and the L1 hot wallet.                                 *)
(*                                                                         *)
(* Amounts are integers in thousandths of a native coin (1000 = 1 PAW).    *)
(***************************************************************************)
EXTENDS Integers, Sequences, FiniteSets, TLC

(***************************************************************************)
(* Bounds of the model                                                     *)
(***************************************************************************)
MaxClock == 2
MaxSends == 3
MaxStoreCalls == 2
MaxBurns == 1
MaxAttempt == 3
MaxInFlight == 2
MaxJobs == 5

(***************************************************************************)
(* Program constants                                                       *)
(***************************************************************************)
\* defaultJobOptions.attempts of the operations queue
Attempts == 3
\* RedisProcessingQueue.PENDING_WITHDRAWAL_RETRY_DELAY, in ms
PendingWithdrawalRetryDelay == 60000
\* BLOCK_SLICE of Blockchain.processBlocks
BlockSlice == 1000
\* BC_PENDING_BLOCKS_START (default "0")
StartFromBlock == 0
\* PAW_USERS_DEPOSITS_HOT_WALLET_MIN, in whole coins (default "0")
HotWalletMinimum == 0
\* PAW_USERS_DEPOSITS_HOT_WALLET_TO_COLD_WALLET_RATIO as deployed: the percentage
\* of a deposit kept in the hot wallet, eventuallySendToColdWallet sends
\* (100 - ratio) hundredths of the deposit to the cold wallet
HotWalletToColdWalletRatio == 20

\* A configuration: the minimum of the hot wallet in thousandths of a coin and
\* the ratio in tenths of a percent
Config(minimum, ratio) == [minimum |-> minimum, ratio |-> ratio]

\* The configuration of the deployed bridge
DeployedConfig == Config(HotWalletMinimum * 1000, HotWalletToColdWalletRatio * 10)

Natives == {"paw_1", "paw_2"}
Evms == {"0xA", "0xB"}
HotWallet == "paw_hot"
ColdWallet == "paw_cold"

\* String.prototype.toLowerCase on the addresses used as Redis key parts
ToLowerCase(a) ==
    CASE a = "0xA" -> "0xa"
      [] a = "0xB" -> "0xb"
      [] OTHER -> a

\* ethers.utils.getAddress: the checksummed form of an address
GetAddress(a) ==
    CASE a = "0xa" -> "0xA"
      [] a = "0xb" -> "0xB"
      [] OTHER -> a

\* The send blocks users can publish on the L1 ledger towards the hot wallet.
\* The raw amount of a block, cut by 9 digits, has 18 decimals: amount holds
\* its thousandths and wei what is left of it, in units of 10^-18 coin.
L1Blocks ==
    { [hash |-> << "h", 1 >>, source |-> "paw_1", amount |-> 1000, wei |-> 0],
      [hash |-> << "h", 2 >>, source |-> "paw_1", amount |-> 2000, wei |-> 0],
      [hash |-> << "h", 3 >>, source |-> "paw_2", amount |-> 1466, wei |-> 0],
      [hash |-> << "h", 4 >>, source |-> "paw_2", amount |-> 100, wei |-> 0],
      [hash |-> << "h", 5 >>, source |-> "paw_1", amount |-> 1466, wei |-> 0],
      [hash |-> << "h", 6 >>, source |-> "paw_1", amount |-> 1000, wei |-> 1],
      [hash |-> << "h", 7 >>, source |-> "paw_1", amount |-> 12000, wei |-> 0],
      [hash |-> << "h", 8 >>, source |-> "paw_1", amount |-> 4120, wei |-> 0],
      [hash |-> << "h", 9 >>, source |-> "paw_1", amount |-> 10, wei |-> 0],
      [hash |-> << "h", 10 >>, source |-> ColdWallet, amount |-> 5000, wei |-> 0] }

NoSignature == [author |-> "none", message |-> <<>>]

VARIABLES
    pendingClaimKeys,   \* Redis keys claims:pending:<native>:<evm>
    claimKeys,          \* Redis keys claims:<native>:<evm>
    blacklist,          \* addresses on which the blacklist oracle returns a record
    pawBalance,         \* Redis keys paw-balance:<native> (absent key = no entry)
    zsets,              \* Redis sorted sets: records [key, member, score]
    audit,              \* Redis hashes audit:<id>: records [id, type, amount, ...]
    inflight,           \* store operations started by a handler and not awaited
    jobs,               \* jobs held by the operations queue
    clock,              \* Date.now()
    hotBalance,         \* received balance of the hot wallet on L1
    receivable,         \* send blocks to the hot wallet that it has not received yet
    sends,              \* log of the L1 sends made from the hot wallet
    wpaw,               \* wPAW each evm address can hold: receipts handed out minus burns
    burns,              \* number of SwapToPaw events emitted by the wPAW contract
    storePendingCalls,  \* number of calls of storePendingClaim per (native, evm)
    lastCall,           \* the last handler run and what it returned
    config,             \* the configuration read from the environment at start
    latestBlock,        \* Redis key blockchain:blocks:latest, << >> when absent
    pipeline,           \* commands sent on the connection of the storage to Redis
    replies,            \* replies of Redis that the storage has not handled yet
    scan,               \* the bc-scan job and the position of processBlocks in it
    fetched,            \* log of the calls of queryFilter made by the scan
    locks,              \* Redis keys locks:<resource> that redlock has set
    claiming            \* calls of Service.claim that are between two awaits

vars == << pendingClaimKeys, claimKeys, blacklist, pawBalance, zsets, audit,
           inflight, jobs, clock, hotBalance, receivable, sends, wpaw, burns,
           storePendingCalls, lastCall, config, latestBlock, pipeline, replies,
           scan, fetched, locks, claiming >>

claimVars == << pendingClaimKeys, claimKeys >>
redisVars == << pawBalance, zsets, audit >>
l1Vars == << hotBalance, receivable, sends >>
evmVars == << wpaw, burns >>
scanVars == << latestBlock, pipeline, replies, scan, fetched >>

NoCall ==
    [op |-> "none", native |-> "", evm |-> "", ts |-> 0, resp |-> "", job |-> ""]

\* No bc-scan job is held by the scan queue
NoScan ==
    [state |-> "none", blockFrom |-> 0, blockTo |-> 0, blockSliceFrom |-> 0,
     blockSliceTo |-> 0, slice |-> 0, attemptsMade |-> 0]

(***************************************************************************)
(* Redis primitives                                                        *)
(***************************************************************************)
\* Sum of the amount fields of a set of records
RECURSIVE SumAmounts(_)
SumAmounts(S) ==
    IF S = {} THEN 0
    ELSE LET x == CHOOSE y \in S : TRUE
         IN  x.amount + SumAmounts(S \ {x})

\* ZADD key score member: a member appears once per key, its score is replaced
ZAdd(z, key, score, member) ==
    { r \in z : ~(r.key = key /\ r.member = member) }
        \cup { [key |-> key, member |-> member, score |-> score] }

\* ZRANK key member /= null
ZHasMember(z, key, member) ==
    \E r \in z : r.key = key /\ r.member = member

\* ZCOUNT key min max
ZCount(z, key, min, max) ==
    Cardinality({ r \in z : r.key = key /\ r.score >= min /\ r.score <= max })

\* HSET audit:<id> fields: the hash stored under an id is replaced
HSet(a, rec) == { r \in a : r.id # rec.id } \cup { rec }


(***************************************************************************)
(* RedisUsersDepositsStorage: reads                                        *)
(***************************************************************************)
\* redis.get(paw-balance:<from>), null read as 0
GetUserAvailableBalance(from) ==
    IF ToLowerCase(from) \in DOMAIN pawBalance
    THEN pawBalance[ToLowerCase(from)]
    ELSE 0

\* The resources that redlock locks
BalanceLock(from) == << "locks:paw-balance", from >>
SwapLock(pawAddress) == << "locks:swaps:paw-to-wpaw", pawAddress >>

\* A variant of getUserAvailableBalance that never unlocks
LocksAfterBalanceReadNoUnlock(held, bal, from) == held \cup { BalanceLock(from) }

\* The locks that getUserAvailableBalance(from) leaves: it gets the lock
\* locks:paw-balance:<from>, which no one else holds by then, and unlocks it
\* after the read unless the key of the balance is absent; the lock then
\* stays until its second has passed
LocksAfterBalanceRead(held, bal, from) ==
    IF ToLowerCase(from) \in DOMAIN bal
    THEN held \ { BalanceLock(from) }
    ELSE held \cup { BalanceLock(from) }

\* The lock of the balance that a store gets and unlocks when it is done
LockOfStore(op) ==
    IF op.type = "swap-to-paw"
    THEN BalanceLock(op.pawAddress)
    ELSE BalanceLock(ToLowerCase(op.pawAddress))

\* redis.keys that finds no pending claim
NoPendingClaimsOf(pawAddress) == {}

\* redis.keys(claims:pending:<native>:*)
PendingClaimsOf(pawAddress) ==
    { k \in pendingClaimKeys : k[1] = ToLowerCase(pawAddress) }

HasPendingClaim(pawAddress) == PendingClaimsOf(pawAddress) # {}

\* redis.keys(claims:<native>:*)
IsClaimed(pawAddress) ==
    \E k \in claimKeys : k[1] = ToLowerCase(pawAddress)

\* redis.keys(claims:<native>:<evm>)
HasClaim(pawAddress, blockchainAddress) ==
    << ToLowerCase(pawAddress), ToLowerCase(blockchainAddress) >> \in claimKeys

ContainsUserDepositTransaction(pawAddress, hash) ==
    ZHasMember(zsets, << "deposits", ToLowerCase(pawAddress) >>, hash)

\* zcount(withdrawals:<native>, timestamp, timestamp) === 1
ContainsUserWithdrawalRequest(pawAddress, timestamp) ==
    ZCount(zsets, << "withdrawals", ToLowerCase(pawAddress) >>,
           timestamp, timestamp) = 1

SwapToPawWasAlreadyDone(swap) ==
    ZHasMember(zsets, << "swaps:wpaw-to-paw", ToLowerCase(swap.blockchainWallet) >>,
               swap.hash)

(***************************************************************************)
(* Signatures and the blacklist oracle                                     *)
(***************************************************************************)
ClaimMessage(pawWallet) == << "claim", pawWallet >>
WithdrawMessage(amount, pawWallet) == << "withdraw", amount, pawWallet >>
SwapMessage(amount, from) == << "swap", amount, from >>

\* A signature made by author over message
Sign(author, message) == [author |-> author, message |-> message]

\* ethers.utils.verifyMessage: the signer of the signature if it was made
\* over the expected message, another address otherwise
VerifyMessage(expected, signature) ==
    IF signature.message = expected THEN signature.author ELSE "0xNobody"

CheckSignature(blockchainWallet, signature, expected) ==
    VerifyMessage(expected, signature) = GetAddress(blockchainWallet)

\* isBlacklisted(pawWallet) !== undefined
IsBlacklisted(pawWallet) == pawWallet \in blacklist

(***************************************************************************)
(* Service.claim                                                           *)
(***************************************************************************)
\* Service.claim without the pending-claim test: a second claimer is
\* answered Ok
ClaimResponseNoPendingTest(pawWallet, blockchainWallet, signature) ==
    IF ~CheckSignature(blockchainWallet, signature, ClaimMessage(pawWallet))
    THEN "InvalidSignature"
    ELSE IF IsBlacklisted(pawWallet) THEN "Blacklisted"
    ELSE IF HasClaim(pawWallet, blockchainWallet) THEN "AlreadyDone"
    ELSE "Ok"

\* Service.claim with the confirmed-claim test after the pending-claim test
ClaimResponsePendingTestFirst(pawWallet, blockchainWallet, signature) ==
    IF ~CheckSignature(blockchainWallet, signature, ClaimMessage(pawWallet))
    THEN "InvalidSignature"
    ELSE IF IsBlacklisted(pawWallet) THEN "Blacklisted"
    ELSE IF ~HasPendingClaim(pawWallet) THEN "Ok"
    ELSE IF HasClaim(pawWallet, blockchainWallet) THEN "AlreadyDone"
    ELSE "InvalidOwner"

\* Service.claim with the blacklist test after the confirmed-claim test
ClaimResponseBlacklistTestLate(pawWallet, blockchainWallet, signature) ==
    IF ~CheckSignature(blockchainWallet, signature, ClaimMessage(pawWallet))
    THEN "InvalidSignature"
    ELSE IF HasClaim(pawWallet, blockchainWallet) THEN "AlreadyDone"
    ELSE IF IsBlacklisted(pawWallet) THEN "Blacklisted"
    ELSE IF ~HasPendingClaim(pawWallet) THEN "Ok"
    ELSE "InvalidOwner"

\* The response of Service.claim in the current state
ClaimResponseOf(pawWallet, blockchainWallet, signature) ==
    IF ~CheckSignature(blockchainWallet, signature, ClaimMessage(pawWallet))
    THEN "InvalidSignature"
    ELSE IF IsBlacklisted(pawWallet) THEN "Blacklisted"
    ELSE IF HasClaim(pawWallet, blockchainWallet) THEN "AlreadyDone"
    ELSE IF ~HasPendingClaim(pawWallet) THEN "Ok"
    ELSE "InvalidOwner"

\* HTTP POST /claim
Claim(pawWallet, blockchainWallet, signature) ==
    LET resp == ClaimResponseOf(pawWallet, blockchainWallet, signature) IN
    /\ resp = "Ok" =>
           storePendingCalls[<< pawWallet, blockchainWallet >>] < MaxStoreCalls
    /\ IF resp = "Ok"
       THEN /\ pendingClaimKeys' = pendingClaimKeys \cup
                   { << ToLowerCase(pawWallet), ToLowerCase(blockchainWallet) >> }
            /\ storePendingCalls' =
                   [storePendingCalls EXCEPT
                       ![<< pawWallet, blockchainWallet >>] = @ + 1]
       ELSE UNCHANGED << pendingClaimKeys, storePendingCalls >>
    /\ lastCall' = [op |-> "claim", native |-> pawWallet,
                    evm |-> blockchainWallet, ts |-> 0, resp |-> resp,
                    job |-> ""]
    /\ UNCHANGED << claimKeys, blacklist, claiming, config, locks, scanVars, redisVars, inflight, jobs, clock,
                    l1Vars, evmVars >>

\* The 5 minutes TTL of a claims:pending key runs out
ExpirePendingClaim(k) ==
    /\ k \in pendingClaimKeys
    /\ pendingClaimKeys' = pendingClaimKeys \ {k}
    /\ UNCHANGED << claimKeys, blacklist, claiming, config, locks, scanVars, redisVars, inflight, jobs, clock,
                    l1Vars, evmVars, storePendingCalls, lastCall >>

\* The blacklist provider starts listing an address
BlacklistAddress(pawWallet) ==
    /\ pawWallet \notin blacklist
    /\ blacklist' = blacklist \cup {pawWallet}
    /\ UNCHANGED << claimVars, claiming, config, locks, scanVars, redisVars, inflight, jobs, clock, l1Vars,
                    evmVars, storePendingCalls, lastCall >>


(***************************************************************************)
(* RedisProcessingQueue: the operations queue and its single worker        *)
(***************************************************************************)
NoHash == << "", 0 >>

\* job.data of an operation
OperationData(pawWallet, amount, blockchainWallet, signature, timestamp, attempt, hash) ==
    [pawWallet |-> pawWallet, amount |-> amount,
     blockchainWallet |-> blockchainWallet, signature |-> signature,
     timestamp |-> timestamp, attempt |-> attempt, hash |-> hash]

\* The place of a new job in the order of the queue: after every job it holds
NextSeq(q) ==
    IF q = {} THEN 1
    ELSE 1 + (CHOOSE n \in { j.seq : j \in q } : \A j \in q : j.seq <= n)

\* Queue.add that drops a job added with a delay
QueueAddWaitingOnly(q, id, name, data, delay) ==
    IF delay > 0 \/ \E j \in q : j.id = id
    THEN q
    ELSE q \cup { [id |-> id, name |-> name, data |-> data,
                   state |-> "waiting", delay |-> 0,
                   attemptsMade |-> 0, seq |-> NextSeq(q)] }

\* Queue.add that replaces the job the queue holds under the id
QueueAddReplacing(q, id, name, data, delay) ==
    { j \in q : j.id # id }
        \cup { [id |-> id, name |-> name, data |-> data,
                state |-> IF delay > 0 THEN "delayed" ELSE "waiting",
                delay |-> delay,
                attemptsMade |-> 0, seq |-> NextSeq(q)] }

\* Queue.add(name, data, {jobId, delay}) with the delay in ms: ignored when the
\* queue holds the id
QueueAdd(q, id, name, data, delay) ==
    IF \E j \in q : j.id = id
    THEN q
    ELSE q \cup { [id |-> id, name |-> name, data |-> data,
                   state |-> IF delay > 0 THEN "delayed" ELSE "waiting",
                   delay |-> delay,
                   attemptsMade |-> 0, seq |-> NextSeq(q)] }

\* removeOnFail: true only for the pending-withdrawal jobs
RemoveOnFail(j) == j.id[1] = "pending-paw-withdrawal"

\* The worker moves a job out of the active state: completed, or failed and
\* retried with backoff while attempts remain
FinishJob(q, j, completed) ==
    IF completed
    THEN (q \ {j}) \cup { [j EXCEPT !.state = "completed"] }
    ELSE IF j.attemptsMade + 1 < Attempts
    THEN (q \ {j}) \cup { [j EXCEPT !.state = "delayed",
                                    !.attemptsMade = @ + 1] }
    ELSE IF RemoveOnFail(j)
    THEN q \ {j}
    ELSE (q \ {j}) \cup { [j EXCEPT !.state = "failed",
                                    !.attemptsMade = @ + 1] }

\* removeOnComplete: 100_000: a completed job leaves the queue once enough
\* newer jobs have completed
RemoveCompleted(j) ==
    /\ j \in jobs
    /\ j.state = "completed"
    /\ jobs' = jobs \ {j}
    /\ UNCHANGED << claimVars, blacklist, claiming, config, locks, scanVars, redisVars, inflight, clock, l1Vars,
                    evmVars, storePendingCalls, lastCall >>

\* The worker without the scheduler of the queue: no delayed job becomes due
RunnableWaitingOnly(j) ==
    /\ j \in jobs
    /\ j.state = "waiting"
    /\ \A k \in jobs : k.state = "waiting" => j.seq <= k.seq

\* The jobs the single worker can pick: the oldest waiting job, or a delayed
\* job whose delay has run out
Runnable(j) ==
    /\ j \in jobs
    /\ \/ j.state = "delayed"
       \/ /\ j.state = "waiting"
          /\ \A k \in jobs : k.state = "waiting" => j.seq <= k.seq

(***************************************************************************)
(* Detached store operations of RedisUsersDepositsStorage                  *)
(***************************************************************************)
\* A store whose promise the caller does not await; seq tells apart two
\* identical stores that are in flight at the same time
StoreOp(type, pawAddress, blockchainAddress, amount, timestamp, hash) ==
    [type |-> type, pawAddress |-> pawAddress,
     blockchainAddress |-> blockchainAddress, amount |-> amount,
     timestamp |-> timestamp, hash |-> hash]

Fire(fl, op) ==
    LET same == { s \in fl : s.op = op }
    IN  fl \cup { [op |-> op, seq |-> Cardinality(same) + 1] }

AuditRecord(id, type, amount, timestamp, pawAddress, blockchainAddress, uuid) ==
    [id |-> id, type |-> type, amount |-> amount, timestamp |-> timestamp,
     pawAddress |-> pawAddress, blockchainAddress |-> blockchainAddress,
     uuid |-> uuid]

(***************************************************************************)
(* Paw: L1 wallet operations                                               *)
(***************************************************************************)
BlockOf(hash) == CHOOSE b \in L1Blocks : b.hash = hash

\* paw.getAccountBalanceAndPendingRaw: balance plus pending receivables
GetTotalBalance(balance, pending) ==
    balance + SumAmounts({ BlockOf(h) : h \in pending })

\* Paw.sendPaw without the balance of the hot wallet
SendPawNeverFails(amount, balance) == FALSE

\* Paw.sendPaw: the node makes no send block for more than the balance of
\* the hot wallet, and the call throws
SendPawFails(amount, balance) == amount > balance

\* An entry of the log of L1 sends
SendEntry(to, amount, kind, pawWallet, timestamp, hash) ==
    [to |-> to, amount |-> amount, kind |-> kind, pawWallet |-> pawWallet,
     timestamp |-> timestamp, hash |-> hash]

\* The hash returned by the n-th send of the hot wallet
SendHash(n) == << "s", n >>

\* Number.parseFloat of the decimal string of an amount: the nearest double.
\* A double has 53 bits, so that from 2^-6 = 0.015625 coin on, 10^-18 coin is
\* less than half the distance between two doubles and is lost.
ParseFloat(amount, wei) ==
    [amount |-> amount, wei |-> IF amount >= 16 THEN 0 ELSE wei]

\* Number.parseFloat(formatted) !== Math.round(number * 100) / 100
HasMoreThanTwoDecimals(amount, wei) ==
    LET number == ParseFloat(amount, wei)
    IN  number.amount % 10 # 0 \/ number.wei # 0

Min(a, b) == IF a <= b THEN a ELSE b

\* BigNumber.from(100 - parseFloat(ratio)) throws a numeric fault on a number
\* with a fractional part
TargetRatioThrows == config.ratio % 10 # 0

\* Paw.eventuallySendToColdWallet throws: the hot wallet is above its minimum
\* and the target ratio cannot be made a BigNumber
ColdWalletThrows(hotWalletBalance) ==
    hotWalletBalance - config.minimum > 0 /\ TargetRatioThrows

\* Paw.eventuallySendToColdWallet splitting the deposit whatever the hot
\* wallet holds above its minimum
ColdWalletAmountOfDeposit(deposit, hotWalletBalance) ==
    LET rounded == deposit \div 1000
        targetRatio == 100 - config.ratio \div 10
    IN  IF TargetRatioThrows
        THEN 0
        ELSE ((rounded * 1000) \div 100) * targetRatio

\* Paw.eventuallySendToColdWallet: the amount to send to the cold wallet,
\* 0 when nothing is sent
ColdWalletAmount(deposit, hotWalletBalance) ==
    LET amountAboveMinimum == hotWalletBalance - config.minimum
        amount == Min(amountAboveMinimum, deposit)
        rounded == amount \div 1000
        targetRatio == 100 - config.ratio \div 10
    IN  IF amountAboveMinimum <= 0 \/ TargetRatioThrows
        THEN 0
        ELSE ((rounded * 1000) \div 100) * targetRatio

(***************************************************************************)
(* RedisUsersDepositsStorage: writes                                       *)
(***************************************************************************)
\* Balance read inside a store: redis.get, null or empty read as 0
BalanceIn(bal, pawAddress) ==
    IF pawAddress \in DOMAIN bal THEN bal[pawAddress] ELSE 0

\* redis.set(paw-balance:<native>, value)
SetBalance(bal, pawAddress, value) ==
    [a \in DOMAIN bal \cup {pawAddress} |->
        IF a = pawAddress THEN value ELSE bal[a]]

\* storeUserSwapToPaw without the second test of the hash, under the lock
ApplyStoreNoSecondCheck(st, op) ==
    LET pawAddress == ToLowerCase(op.pawAddress) IN
    CASE op.type = "deposit" ->
           [bal |-> SetBalance(st.bal, pawAddress,
                               BalanceIn(st.bal, pawAddress) + op.amount),
            z |-> ZAdd(st.z, << "deposits", pawAddress >>, op.timestamp, op.hash),
            a |-> HSet(st.a, AuditRecord(op.hash, "deposit", op.amount,
                                         op.timestamp, "", "", 0))]
      [] op.type = "withdrawal" ->
           [bal |-> SetBalance(st.bal, pawAddress,
                               BalanceIn(st.bal, pawAddress) - op.amount),
            z |-> ZAdd(st.z, << "withdrawals", pawAddress >>, op.timestamp,
                       op.hash),
            a |-> HSet(st.a, AuditRecord(op.hash, "withdrawal", op.amount,
                                         op.timestamp, "", "", 0))]
      [] op.type = "swap-to-paw" ->
           [bal |-> SetBalance(st.bal, pawAddress,
                                    BalanceIn(st.bal, pawAddress) + op.amount),
                 z |-> ZAdd(st.z, << "swaps:wpaw-to-paw",
                                     ToLowerCase(op.blockchainAddress) >>,
                            op.timestamp * 1000, op.hash),
                 a |-> HSet(st.a, AuditRecord(op.hash, "swap-to-paw", op.amount,
                                              op.timestamp * 1000, pawAddress,
                                              "", 0))]

\* The critical section of storeUserDeposit, storeUserWithdrawal or
\* storeUserSwapToPaw applied to the store st = [bal, z, a]
ApplyStore(st, op) ==
    LET pawAddress == ToLowerCase(op.pawAddress) IN
    CASE op.type = "deposit" ->
           [bal |-> SetBalance(st.bal, pawAddress,
                               BalanceIn(st.bal, pawAddress) + op.amount),
            z |-> ZAdd(st.z, << "deposits", pawAddress >>, op.timestamp, op.hash),
            a |-> HSet(st.a, AuditRecord(op.hash, "deposit", op.amount,
                                         op.timestamp, "", "", 0))]
      [] op.type = "withdrawal" ->
           [bal |-> SetBalance(st.bal, pawAddress,
                               BalanceIn(st.bal, pawAddress) - op.amount),
            z |-> ZAdd(st.z, << "withdrawals", pawAddress >>, op.timestamp,
                       op.hash),
            a |-> HSet(st.a, AuditRecord(op.hash, "withdrawal", op.amount,
                                         op.timestamp, "", "", 0))]
      [] op.type = "swap-to-paw" ->
           IF ZHasMember(st.z, << "swaps:wpaw-to-paw",
                                  ToLowerCase(op.blockchainAddress) >>, op.hash)
           THEN st
           ELSE [bal |-> SetBalance(st.bal, pawAddress,
                                    BalanceIn(st.bal, pawAddress) + op.amount),
                 z |-> ZAdd(st.z, << "swaps:wpaw-to-paw",
                                     ToLowerCase(op.blockchainAddress) >>,
                            op.timestamp * 1000, op.hash),
                 a |-> HSet(st.a, AuditRecord(op.hash, "swap-to-paw", op.amount,
                                              op.timestamp * 1000, pawAddress,
                                              "", 0))]

Store == [bal |-> pawBalance, z |-> zsets, a |-> audit]

\* A store that a handler has started and does not await commits before or
\* after the handler goes on: early tells that it has committed when the
\* handler reads the balance for its result
Early(fired) == IF fired THEN BOOLEAN ELSE { FALSE }

\* A detached store gets the balance lock and commits
CommitStore(s) ==
    /\ s \in inflight
    /\ LET st == ApplyStore(Store, s.op) IN
       /\ pawBalance' = st.bal
       /\ zsets' = st.z
       /\ audit' = st.a
    /\ inflight' = inflight \ {s}
    /\ locks' = locks \ { LockOfStore(s.op) }
    /\ UNCHANGED << claimVars, blacklist, claiming, config, scanVars, jobs, clock, l1Vars,
                    evmVars, storePendingCalls, lastCall >>

\* The lock of a detached store is not acquired after the retries of redlock:
\* the promise nobody awaits is rejected and the store is never made
LoseStore(s) ==
    /\ s \in inflight
    /\ inflight' = inflight \ {s}
    /\ UNCHANGED << claimVars, blacklist, claiming, config, locks, scanVars, redisVars, jobs, clock, l1Vars,
                    evmVars, storePendingCalls, lastCall >>

(***************************************************************************)
(* Paw: deposits                                                           *)
(***************************************************************************)
\* The wallets of the bridge, whose sends to the hot wallet are no deposits
SentByBridge(b) == b.source \in { HotWallet, ColdWallet }

\* Paw.wsMessageReceived: the confirmation of a send block to the hot wallet
\* arrives on the websocket. A block sent by the hot or the cold wallet is
\* received; for any other block a deposit job is queued
WsMessageReceived(b) ==
    /\ b \in L1Blocks
    /\ b.hash \notin receivable
    /\ ~\E j \in jobs : j.id = << "paw-deposit", b.source, b.hash >>
    /\ IF SentByBridge(b)
       THEN /\ hotBalance' = hotBalance + b.amount
            /\ UNCHANGED << receivable, jobs >>
       ELSE /\ receivable' = receivable \cup {b.hash}
            /\ jobs' = QueueAdd(jobs, << "paw-deposit", b.source, b.hash >>,
                                "paw-deposit",
                                OperationData(b.source, b.amount, "", NoSignature,
                                              clock, 0, b.hash),
                                0)
            /\ UNCHANGED hotBalance
    /\ UNCHANGED << claimVars, blacklist, claiming, config, locks, scanVars, redisVars, inflight, clock,
                    sends, evmVars, storePendingCalls, lastCall >>

\* A send block to the hot wallet is confirmed while the websocket is down:
\* no notification arrives and the block stays pending on the hot wallet
MissedBlock(b) ==
    /\ b \in L1Blocks
    /\ b.hash \notin receivable
    /\ ~\E j \in jobs : j.id = << "paw-deposit", b.source, b.hash >>
    /\ receivable' = receivable \cup {b.hash}
    /\ UNCHANGED << claimVars, blacklist, claiming, config, locks, scanVars, redisVars, inflight, clock,
                    jobs, hotBalance, sends, evmVars, storePendingCalls, lastCall >>

\* The orders in which the node can list a set of pending blocks
Orders(hashes) ==
    { order \in [1..Cardinality(hashes) -> hashes] :
        \A i, k \in 1..Cardinality(hashes) : i # k => order[i] # order[k] }

\* The blocks that the loop of processPendingTransactions reaches: it returns
\* at the first block sent by the hot or the cold wallet
RECURSIVE Swept(_)
Swept(hashes) ==
    IF hashes = << >> THEN << >>
    ELSE IF SentByBridge(BlockOf(Head(hashes))) THEN << Head(hashes) >>
    ELSE << Head(hashes) >> \o Swept(Tail(hashes))

\* The deposit jobs queued for the pending blocks of users that the loop reaches
RECURSIVE QueueUserDeposits(_, _, _)
QueueUserDeposits(q, hashes, timestamp) ==
    IF hashes = << >> THEN q
    ELSE LET b == BlockOf(Head(hashes))
         IN  IF SentByBridge(b) THEN q
             ELSE QueueUserDeposits(
                      QueueAdd(q, << "paw-deposit", b.source, b.hash >>,
                               "paw-deposit",
                               OperationData(b.source, b.amount, "", NoSignature,
                                             timestamp, 0, b.hash),
                               0),
                      Tail(hashes), timestamp)

\* Paw.processPendingTransactions, run every minute, over the blocks that are
\* pending on the hot wallet in the order of the reply of the node: a deposit
\* job is queued for a block of a user; a block sent by the hot or the cold
\* wallet is received and the function returns
ProcessPendingTransactions ==
    /\ receivable # {}
    /\ \E order \in Orders(receivable) :
           LET swept == Swept(order)
               last == BlockOf(swept[Len(swept)])
           IN  /\ jobs' = QueueUserDeposits(jobs, swept, clock)
               /\ IF SentByBridge(last)
                  THEN /\ hotBalance' = hotBalance + last.amount
                       /\ receivable' = receivable \ {last.hash}
                  ELSE UNCHANGED << hotBalance, receivable >>
    /\ lastCall' = [op |-> "processPendingTransactions", native |-> "",
                    evm |-> "", ts |-> clock, resp |-> "", job |-> ""]
    /\ UNCHANGED << claimVars, blacklist, claiming, config, locks, scanVars, redisVars, inflight,
                    clock, sends, evmVars, storePendingCalls >>

\* The deposit processor: Paw.processUserDeposit followed by the read of the
\* balance for the job result. lockError: that read fails to get the lock.
ProcessUserDeposit(j, lockError) ==
    /\ Runnable(j)
    /\ j.name = "paw-deposit"
    /\ Len(sends) < MaxSends
    /\ LET sender == j.data.pawWallet
           amount == j.data.amount
           hash == j.data.hash
           \* the digits of job.data.amount below a thousandth of a coin
           wei == BlockOf(hash).wei
           pending == PendingClaimsOf(sender)
       IN
       \E key \in (IF pending = {} THEN { << "", "" >> } ELSE pending) :
       LET \* confirmClaim when a pending claim exists
           claimKeys1 == IF pending = {} THEN claimKeys
                         ELSE claimKeys \cup {key}
           \* receiveTransaction(hash)
           hot1 == IF hash \in receivable THEN hotBalance + amount
                   ELSE hotBalance
           receivable1 == receivable \ {hash}
           isClaimed == \E k \in claimKeys1 : k[1] = ToLowerCase(sender)
           refund == ~isClaimed \/ HasMoreThanTwoDecimals(amount, wei)
           alreadyStored == ContainsUserDepositTransaction(sender, hash)
           toCold == ColdWalletAmount(amount,
                                      GetTotalBalance(hot1, receivable1))
           sent == IF refund THEN amount ELSE toCold
           sendFails ==
               \/ SendPawFails(sent, hot1)
               \/ ~refund /\ ColdWalletThrows(GetTotalBalance(hot1, receivable1))
           entry == IF refund
                    THEN SendEntry(sender, amount, "refund", sender,
                                   j.data.timestamp, hash)
                    ELSE SendEntry(ColdWallet, toCold, "cold", sender,
                                   j.data.timestamp, hash)
           completed == ~sendFails /\ ~lockError
       IN
       \E early \in Early(~refund /\ ~alreadyStored) :
       LET op == StoreOp("deposit", sender, "", amount, j.data.timestamp, hash)
           st == IF early THEN ApplyStore(Store, op) ELSE Store
           unlocked == IF early THEN locks \ { LockOfStore(op) } ELSE locks
       IN
       /\ claimKeys' = claimKeys1
       /\ receivable' = receivable1
       /\ inflight' = IF ~refund /\ ~alreadyStored /\ ~early
                      THEN Fire(inflight, op)
                      ELSE inflight
       /\ pawBalance' = st.bal
       /\ zsets' = st.z
       /\ audit' = st.a
       \* the read of the balance for the result of the job
       /\ locks' = IF completed
                   THEN LocksAfterBalanceRead(unlocked, st.bal, sender)
                   ELSE unlocked
       /\ IF sent > 0 /\ ~sendFails
          THEN /\ sends' = Append(sends, entry)
               /\ hotBalance' = hot1 - sent
          ELSE /\ sends' = sends
               /\ hotBalance' = hot1
       /\ jobs' = FinishJob(jobs, j, completed)
       /\ lastCall' = [op |-> "paw-deposit", native |-> sender, evm |-> "",
                       ts |-> j.data.timestamp,
                       resp |-> IF refund THEN "rejected" ELSE "accepted",
                       job |-> IF completed THEN "completed" ELSE "failed"]
    /\ UNCHANGED << pendingClaimKeys, blacklist, claiming, config, scanVars, clock,
                    evmVars, storePendingCalls >>


(***************************************************************************)
(* Service: withdrawals                                                    *)
(***************************************************************************)
\* HTTP POST /withdrawals/paw: Service.withdrawPAW with timestamp Date.now()
WithdrawPAW(pawWallet, amount, blockchainWallet, signature) ==
    /\ clock <= MaxClock
    /\ clock' = clock + 1
    /\ jobs' = QueueAdd(jobs, << "paw-withdrawal", pawWallet, clock >>,
                        "paw-withdrawal",
                        OperationData(pawWallet, amount, blockchainWallet,
                                      signature, clock, 0, NoHash),
                        0)
    /\ UNCHANGED << claimVars, blacklist, claiming, config, locks, scanVars, redisVars, inflight, l1Vars,
                    evmVars, storePendingCalls, lastCall >>

\* Service.withdrawPAW called with a timestamp: a request that arrives in the
\* millisecond of an earlier one is given the same Date.now()
ServiceWithdrawPAW(pawWallet, amount, blockchainWallet, timestamp, signature) ==
    /\ jobs' = QueueAdd(jobs, << "paw-withdrawal", pawWallet, timestamp >>,
                        "paw-withdrawal",
                        OperationData(pawWallet, amount, blockchainWallet,
                                      signature, timestamp, 0, NoHash),
                        0)
    /\ lastCall' = [op |-> "withdrawPAW", native |-> pawWallet,
                    evm |-> blockchainWallet, ts |-> timestamp, resp |-> "",
                    job |-> ""]
    /\ UNCHANGED << claimVars, blacklist, claiming, config, locks, scanVars, redisVars, inflight,
                    clock, l1Vars, evmVars, storePendingCalls >>

\* The negation of the promise returned by isClaimed / hasClaim, which
\* processWithdrawPAW tests without awaiting it: a promise is truthy
NotOfPromise(value) == FALSE

\* processWithdrawPAW without the test of the sign of the amount
WithdrawalErrorNoNegativeTest(withdrawal, signature) ==
    LET pawWallet == withdrawal.pawWallet
        amount == withdrawal.amount
    IN
    IF ContainsUserWithdrawalRequest(pawWallet, withdrawal.timestamp)
    THEN "already processed"
    ELSE IF /\ signature # NoSignature
            /\ ~CheckSignature(withdrawal.blockchainWallet, signature,
                               WithdrawMessage(amount, pawWallet))
    THEN "InvalidSignature"
    ELSE IF ~(GetUserAvailableBalance(pawWallet) >= amount)
    THEN "InsufficientBalance"
    ELSE ""

\* processWithdrawPAW without the test of the balance of the user
WithdrawalErrorNoBalanceTest(withdrawal, signature) ==
    LET pawWallet == withdrawal.pawWallet
        amount == withdrawal.amount
    IN
    IF ContainsUserWithdrawalRequest(pawWallet, withdrawal.timestamp)
    THEN "already processed"
    ELSE IF /\ signature # NoSignature
            /\ ~CheckSignature(withdrawal.blockchainWallet, signature,
                               WithdrawMessage(amount, pawWallet))
    THEN "InvalidSignature"
    ELSE IF amount < 0
    THEN "negative"
    ELSE ""

\* The error processWithdrawPAW throws before sending, "" when it throws none
WithdrawalError(withdrawal, signature) ==
    LET pawWallet == withdrawal.pawWallet
        blockchainWallet == withdrawal.blockchainWallet
        amount == withdrawal.amount
    IN
    IF ContainsUserWithdrawalRequest(pawWallet, withdrawal.timestamp)
    THEN "already processed"
    ELSE IF /\ signature # NoSignature
            /\ ~CheckSignature(blockchainWallet, signature,
                               WithdrawMessage(amount, pawWallet))
    THEN "InvalidSignature"
    ELSE IF NotOfPromise(IsClaimed(pawWallet))
    THEN "unclaimed wallet"
    ELSE IF NotOfPromise(HasClaim(pawWallet, blockchainWallet))
    THEN "another Blockchain wallet"
    ELSE IF amount < 0
    THEN "negative"
    ELSE IF ~(GetUserAvailableBalance(pawWallet) >= amount)
    THEN "InsufficientBalance"
    ELSE ""

\* A variant of addPawUserPendingWithdrawal that delays every attempt by one
\* retry delay
AddPawUserPendingWithdrawalSameDelay(q, _withdrawal) ==
    LET attempt == _withdrawal.attempt + 1
    IN  QueueAdd(q,
                 << "pending-paw-withdrawal", _withdrawal.pawWallet,
                    _withdrawal.timestamp, attempt >>,
                 "paw-withdrawal",
                 [_withdrawal EXCEPT !.attempt = attempt],
                 PendingWithdrawalRetryDelay)

\* RedisProcessingQueue.addPawUserPendingWithdrawal: the attempt of the
\* withdrawal is incremented, and the job pending-paw-withdrawal-<wallet>-
\* <timestamp>-attempt-<attempt> is added with a delay of attempt times
\* PENDING_WITHDRAWAL_RETRY_DELAY
AddPawUserPendingWithdrawal(q, _withdrawal) ==
    LET attempt == _withdrawal.attempt + 1
    IN  QueueAdd(q,
                 << "pending-paw-withdrawal", _withdrawal.pawWallet,
                    _withdrawal.timestamp, attempt >>,
                 "paw-withdrawal",
                 [_withdrawal EXCEPT !.attempt = attempt],
                 attempt * PendingWithdrawalRetryDelay)

\* A variant of the withdrawal processor that throws for every withdrawal it
\* has put in the pending withdrawals
ReplacedByNewOneAlways(withdrawal) == withdrawal.attempt >= 1

\* withdrawalProcessor, no hash: a result with an empty transaction is
\* returned when the attempt of the withdrawal, as incremented by
\* addPawUserPendingWithdrawal, is 1; otherwise "Old pending withdrawal request
\* replaced by a new one" is thrown
ReplacedByNewOne(withdrawal) == withdrawal.attempt # 1

\* The withdrawal processor: Service.processWithdrawPAW followed by the read
\* of the balance for the job result. lockError: that read fails to get the
\* lock.
ProcessWithdrawPAW(j, lockError) ==
    /\ Runnable(j)
    /\ j.name = "paw-withdrawal"
    /\ Len(sends) < MaxSends
    /\ j.data.attempt < MaxAttempt
    /\ LET w == j.data
           error == WithdrawalError(w, w.signature)
           \* eventuallySendPaw
           pending == error = "" /\ hotBalance < w.amount
           send == error = "" /\ ~pending
           hash == SendHash(Len(sends) + 1)
           \* addPawUserPendingWithdrawal increments the attempt of job.data
           attempt == w.attempt + 1
           replaced == /\ pending
                       /\ ReplacedByNewOne([w EXCEPT !.attempt = attempt])
           completed == error = "" /\ ~replaced /\ ~lockError
           stored == ContainsUserWithdrawalRequest(w.pawWallet, w.timestamp)
       IN
       \E early \in Early(send /\ ~stored) :
       LET \* UsersDepositsService.storeUserWithdrawal
           op == StoreOp("withdrawal", w.pawWallet, "", w.amount, w.timestamp,
                         hash)
           st == IF early THEN ApplyStore(Store, op) ELSE Store
       IN
       /\ IF send
          THEN /\ sends' = Append(sends,
                       SendEntry(w.pawWallet, w.amount, "withdrawal",
                                 w.pawWallet, w.timestamp, NoHash))
               /\ hotBalance' = hotBalance - w.amount
               /\ inflight' = IF early \/ stored THEN inflight
                              ELSE Fire(inflight, op)
          ELSE UNCHANGED << sends, hotBalance, inflight >>
       /\ pawBalance' = st.bal
       /\ zsets' = st.z
       /\ audit' = st.a
       \* the reads of the balance of processWithdrawPAW and for the result
       /\ locks' =
              LET checked == IF error \in { "", "InsufficientBalance" }
                             THEN LocksAfterBalanceRead(locks, pawBalance,
                                                        w.pawWallet)
                             ELSE locks
                  unlocked == IF early THEN checked \ { LockOfStore(op) }
                              ELSE checked
              IN  IF completed
                  THEN LocksAfterBalanceRead(unlocked, st.bal, w.pawWallet)
                  ELSE unlocked
       /\ jobs' =
              LET q == IF pending
                       THEN AddPawUserPendingWithdrawal(jobs, w)
                       ELSE jobs
              IN  FinishJob(q, j, completed)
       /\ lastCall' = [op |-> "paw-withdrawal", native |-> w.pawWallet,
                       evm |-> w.blockchainWallet, ts |-> w.timestamp,
                       resp |-> IF error # "" THEN error
                                ELSE IF pending /\ replaced THEN "replaced"
                                ELSE IF pending THEN "pending"
                                ELSE "sent",
                       job |-> IF completed THEN "completed" ELSE "failed"]
    /\ UNCHANGED << claimVars, blacklist, claiming, config, scanVars, clock, receivable,
                    evmVars, storePendingCalls >>


(***************************************************************************)
(* Service: swaps PAW -> wPAW                                              *)
(***************************************************************************)
\* HTTP POST /swap: Service.swapToWPAW with timestamp Date.now()
SwapToWPAW(from, amount, blockchainWallet, signature) ==
    /\ clock <= MaxClock
    /\ clock' = clock + 1
    /\ jobs' = QueueAdd(jobs, << "swap-paw-to-wpaw", from, clock >>,
                        "swap-paw-to-wpaw",
                        OperationData(from, amount, blockchainWallet, signature,
                                      clock, 0, NoHash),
                        0)
    /\ UNCHANGED << claimVars, blacklist, claiming, config, locks, scanVars, redisVars, inflight, l1Vars,
                    evmVars, storePendingCalls, lastCall >>

\* Service.swapToWPAW called with a timestamp: a request that arrives in the
\* millisecond of an earlier one is given the same Date.now()
ServiceSwapToWPAW(from, amount, blockchainWallet, timestamp, signature) ==
    /\ jobs' = QueueAdd(jobs, << "swap-paw-to-wpaw", from, timestamp >>,
                        "swap-paw-to-wpaw",
                        OperationData(from, amount, blockchainWallet, signature,
                                      timestamp, 0, NoHash),
                        0)
    /\ lastCall' = [op |-> "swapToWPAW", native |-> from,
                    evm |-> blockchainWallet, ts |-> timestamp, resp |-> "",
                    job |-> ""]
    /\ UNCHANGED << claimVars, blacklist, claiming, config, locks, scanVars, redisVars, inflight,
                    clock, l1Vars, evmVars, storePendingCalls >>

\* processSwapToWPAW testing that the PAW wallet is claimed, by any address
SwapToWPAWErrorAnyClaim(swap) ==
    IF ~CheckSignature(swap.blockchainWallet, swap.signature,
                       SwapMessage(swap.amount, swap.pawWallet))
    THEN "InvalidSignature"
    ELSE IF ~IsClaimed(swap.pawWallet)
    THEN "InvalidOwner"
    ELSE IF swap.amount < 0
    THEN "negative"
    ELSE IF ~(GetUserAvailableBalance(swap.pawWallet) >= swap.amount)
    THEN "InsufficientBalance"
    ELSE ""

\* processSwapToWPAW without the test of the sign of the amount
SwapToWPAWErrorNoNegativeTest(swap) ==
    IF ~CheckSignature(swap.blockchainWallet, swap.signature,
                       SwapMessage(swap.amount, swap.pawWallet))
    THEN "InvalidSignature"
    ELSE IF ~HasClaim(swap.pawWallet, swap.blockchainWallet)
    THEN "InvalidOwner"
    ELSE IF ~(GetUserAvailableBalance(swap.pawWallet) >= swap.amount)
    THEN "InsufficientBalance"
    ELSE ""

\* The error processSwapToWPAW throws before the mint receipt is created,
\* "" when it throws none
SwapToWPAWError(swap) ==
    IF ~CheckSignature(swap.blockchainWallet, swap.signature,
                       SwapMessage(swap.amount, swap.pawWallet))
    THEN "InvalidSignature"
    ELSE IF ~HasClaim(swap.pawWallet, swap.blockchainWallet)
    THEN "InvalidOwner"
    ELSE IF swap.amount < 0
    THEN "negative"
    ELSE IF ~(GetUserAvailableBalance(swap.pawWallet) >= swap.amount)
    THEN "InsufficientBalance"
    ELSE ""

\* Blockchain.createMintReceipt: the receipt signed over (address, amount, uuid)
\* with uuid = Date.now()
MintReceipt(uuid) == << "r", uuid >>

\* The swap-to-wPAW processor: Service.processSwapToWPAW followed by the read
\* of the balance for the job result. storeUserSwapToWPaw reads the balance
\* under the balance lock and writes it under the swap lock only, so that a
\* detached store (mid) can commit between the read and the write.
ProcessSwapToWPAW(j, lockError) ==
    /\ Runnable(j)
    /\ j.name = "swap-paw-to-wpaw"
    /\ LET swap == j.data
           error == SwapToWPAWError(swap)
           pawAddress == ToLowerCase(swap.pawWallet)
           uuid == clock
           receipt == MintReceipt(uuid)
       IN
       /\ IF error = ""
          THEN /\ clock <= MaxClock + 1
               /\ clock' = clock + 1
               /\ \E mid \in inflight \cup { [op |-> StoreOp("none", "", "", 0, 0, NoHash), seq |-> 0] } :
                    LET balance == GetUserAvailableBalance(pawAddress) - swap.amount
                        st == IF mid.seq = 0 THEN Store
                              ELSE ApplyStore(Store, mid.op)
                    IN
                    /\ inflight' = inflight \ {mid}
                    /\ locks' =
                           LET read == LocksAfterBalanceRead(
                                           LocksAfterBalanceRead(
                                               locks, pawBalance,
                                               swap.pawWallet),
                                           pawBalance, pawAddress)
                               stored == IF mid.seq = 0 THEN read
                                         ELSE read \ { LockOfStore(mid.op) }
                               unlocked == stored \ { SwapLock(pawAddress) }
                           IN  \* the read of the balance for the result
                               IF lockError THEN unlocked
                               ELSE unlocked \ { BalanceLock(swap.pawWallet) }
                    /\ pawBalance' = SetBalance(st.bal, pawAddress, balance)
                    /\ zsets' = ZAdd(st.z, << "swaps:paw-to-wpaw", pawAddress >>,
                                     swap.timestamp, receipt)
                    /\ audit' = HSet(st.a,
                                     AuditRecord(receipt, "swap-to-wpaw",
                                                 swap.amount, swap.timestamp, "",
                                                 ToLowerCase(swap.blockchainWallet),
                                                 uuid))
               \* the receipt is returned to the user by the job result
               /\ wpaw' = IF lockError THEN wpaw
                          ELSE [wpaw EXCEPT ![swap.blockchainWallet] =
                                               @ + swap.amount]
          ELSE /\ locks' = IF error = "InsufficientBalance"
                          THEN LocksAfterBalanceRead(locks, pawBalance,
                                                     swap.pawWallet)
                          ELSE locks
               /\ UNCHANGED << clock, inflight, redisVars, wpaw >>
       /\ jobs' = FinishJob(jobs, j, error = "" /\ ~lockError)
       /\ lastCall' = [op |-> "swap-paw-to-wpaw", native |-> swap.pawWallet,
                       evm |-> swap.blockchainWallet, ts |-> swap.timestamp,
                       resp |-> IF error # "" THEN error ELSE "receipt",
                       job |-> IF error = "" /\ ~lockError THEN "completed"
                               ELSE "failed"]
    /\ UNCHANGED << claimVars, blacklist, claiming, config, scanVars, l1Vars,
                    storePendingCalls, burns >>

(***************************************************************************)
(* Service: swaps wPAW -> PAW                                              *)
(***************************************************************************)
\* The hash of the n-th SwapToPaw transaction of the wPAW contract
BurnHash(n) == << "b", n >>

\* The timestamp of the block of the n-th SwapToPaw transaction: the time of
\* the EVM chain, which the live listener and the scan of the blocks both read
BlockTimestamp(n) == n

\* Blockchain: a SwapToPaw event of the wPAW contract is handed to
\* Service.swapToPAW, which queues it
SwapToPAW(blockchainWallet, pawWallet, amount) ==
    /\ burns < MaxBurns
    /\ amount > 0
    /\ wpaw[blockchainWallet] >= amount
    /\ wpaw' = [wpaw EXCEPT ![blockchainWallet] = @ - amount]
    /\ burns' = burns + 1
    /\ jobs' = QueueAdd(jobs,
                        << "swap-wpaw-to-paw", blockchainWallet,
                           BurnHash(burns + 1) >>,
                        "swap-wpaw-to-paw",
                        OperationData(pawWallet, amount, blockchainWallet,
                                      NoSignature,
                                      BlockTimestamp(burns + 1), 0,
                                      BurnHash(burns + 1)),
                        0)
    /\ UNCHANGED << claimVars, blacklist, claiming, config, locks, scanVars, redisVars, inflight, clock, l1Vars,
                    storePendingCalls, lastCall >>

\* Blockchain.processBlocksSlice: the scan of the blocks finds the n-th
\* SwapToPaw event again and hands it to Service.swapToPAW
RescanSwapToPAW(blockchainWallet, pawWallet, amount, n) ==
    /\ n \in 1..burns
    /\ jobs' = QueueAdd(jobs,
                        << "swap-wpaw-to-paw", blockchainWallet, BurnHash(n) >>,
                        "swap-wpaw-to-paw",
                        OperationData(pawWallet, amount, blockchainWallet,
                                      NoSignature, BlockTimestamp(n), 0,
                                      BurnHash(n)),
                        0)
    /\ UNCHANGED << claimVars, blacklist, claiming, config, locks, scanVars, redisVars, inflight, clock, l1Vars,
                    evmVars, storePendingCalls, lastCall >>

\* The swap-to-PAW processor: Service.processSwapToPAW followed by the read of
\* the balance for the job result
ProcessSwapToPAW(j, lockError) ==
    /\ Runnable(j)
    /\ j.name = "swap-wpaw-to-paw"
    /\ LET swap == j.data
           done == SwapToPawWasAlreadyDone(swap)
       IN
       \E early \in Early(~done) :
       LET op == StoreOp("swap-to-paw", swap.pawWallet, swap.blockchainWallet,
                         swap.amount, swap.timestamp, swap.hash)
           st == IF early THEN ApplyStore(Store, op) ELSE Store
           unlocked == IF early THEN locks \ { LockOfStore(op) } ELSE locks
       IN
       /\ inflight' = IF done \/ early THEN inflight ELSE Fire(inflight, op)
       /\ pawBalance' = st.bal
       /\ zsets' = st.z
       /\ audit' = st.a
       \* the read of the balance for the result of the job
       /\ locks' = IF lockError THEN unlocked
                   ELSE LocksAfterBalanceRead(unlocked, st.bal, swap.pawWallet)
       /\ jobs' = FinishJob(jobs, j, ~lockError)
       /\ lastCall' = [op |-> "swap-wpaw-to-paw", native |-> swap.pawWallet,
                       evm |-> swap.blockchainWallet, ts |-> swap.timestamp,
                       resp |-> IF done THEN "already done" ELSE "stored",
                       job |-> IF lockError THEN "failed" ELSE "completed"]
    /\ UNCHANGED << claimVars, blacklist, claiming, config, scanVars, clock, l1Vars,
                    storePendingCalls, wpaw, burns >>


(***************************************************************************)
(* Blockchain: the scan of the blocks and its cursor                       *)
(***************************************************************************)
\* getLastBlockchainBlockProcessed: the value of the key, or the block of the
\* configuration when the key is absent
GetLastBlockchainBlockProcessed(rawBlockValue) ==
    IF rawBlockValue = << >> THEN StartFromBlock ELSE rawBlockValue[1]

\* The scan queue gets a bc-scan job over the blocks blockFrom..blockTo
AddScan(blockFrom, blockTo) ==
    /\ scan.state = "none"
    /\ scan' = [NoScan EXCEPT !.state = "waiting", !.blockFrom = blockFrom,
                              !.blockTo = blockTo]
    /\ UNCHANGED << claimVars, blacklist, claiming, config, locks, redisVars, inflight, jobs,
                    clock, l1Vars, evmVars, storePendingCalls, lastCall,
                    latestBlock, pipeline, replies, fetched >>

\* The bc-scan processor starts Blockchain.processBlocks on the blocks of
\* job.data, at the first run of the job and at each retry
ProcessBlocks ==
    /\ scan.state \in { "waiting", "delayed" }
    /\ scan' = [scan EXCEPT
                   !.state = "active",
                   !.slice = 0,
                   !.blockSliceFrom = scan.blockFrom,
                   !.blockSliceTo = Min(scan.blockFrom + BlockSlice - 1,
                                        scan.blockTo)]
    /\ UNCHANGED << claimVars, blacklist, claiming, config, locks, redisVars, inflight, jobs,
                    clock, l1Vars, evmVars, storePendingCalls, lastCall,
                    latestBlock, pipeline, replies, fetched >>

\* The hand-off of the events of a slice to Service.swapToPAW
RECURSIVE HandleSwapToPawEvents(_, _)
HandleSwapToPawEvents(q, events) ==
    IF events = {} THEN q
    ELSE LET e == CHOOSE x \in events : TRUE
         IN  HandleSwapToPawEvents(
                 QueueAdd(q, << "swap-wpaw-to-paw", e.blockchainWallet, e.hash >>,
                          "swap-wpaw-to-paw", e, 0),
                 events \ {e})

\* One turn of the loop of processBlocks: processBlocksSlice on the current
\* slice, which holds the SwapToPaw events given. fails: queryFilter or
\* getBlock throws. The call of setLastBlockchainBlockProcessed is not awaited:
\* it sends its GET and the loop goes on.
ProcessBlocksSlice(events, fails) ==
    /\ scan.state = "active"
    /\ fetched' = Append(fetched, [blockFrom |-> scan.blockSliceFrom,
                                   blockTo |-> scan.blockSliceTo,
                                   attempt |-> scan.attemptsMade + 1])
    /\ IF fails
       THEN /\ scan' = [scan EXCEPT
                           !.state = IF scan.attemptsMade + 1 < Attempts
                                     THEN "delayed" ELSE "failed",
                           !.attemptsMade = @ + 1]
            /\ UNCHANGED << jobs, pipeline >>
       ELSE LET numberOfSlices ==
                    (scan.blockTo - scan.blockFrom) \div BlockSlice + 1
                blockSliceFrom == scan.blockSliceTo + 1
                blockSliceTo ==
                    scan.blockSliceTo
                        + Min(BlockSlice, scan.blockTo - blockSliceFrom + 1)
            IN  /\ jobs' = HandleSwapToPawEvents(jobs, events)
                /\ pipeline' = Append(pipeline, [cmd |-> "get",
                                                 block |-> scan.blockSliceTo])
                /\ scan' = IF scan.slice + 1 < numberOfSlices
                           THEN [scan EXCEPT !.slice = @ + 1,
                                             !.blockSliceFrom = blockSliceFrom,
                                             !.blockSliceTo = blockSliceTo]
                           ELSE [scan EXCEPT !.state = "completed"]
    /\ UNCHANGED << claimVars, blacklist, claiming, config, locks, redisVars, inflight, clock,
                    l1Vars, evmVars, storePendingCalls, lastCall, latestBlock,
                    replies >>

\* Redis executes the oldest command of the connection
RedisExecutes ==
    /\ pipeline # << >>
    /\ LET command == Head(pipeline) IN
       IF command.cmd = "get"
       THEN /\ replies' = Append(replies,
                    [block |-> command.block,
                     lastBlockProcessed |->
                         GetLastBlockchainBlockProcessed(latestBlock)])
            /\ latestBlock' = latestBlock
       ELSE /\ latestBlock' = << command.block >>
            /\ replies' = replies
    /\ pipeline' = Tail(pipeline)
    /\ UNCHANGED << claimVars, blacklist, claiming, config, locks, redisVars, inflight, jobs,
                    clock, l1Vars, evmVars, storePendingCalls, lastCall, scan,
                    fetched >>

\* setLastBlockchainBlockProcessed goes on with the reply to its GET and sends
\* the SET when its block is above the value read
SetLastBlockchainBlockProcessed ==
    /\ replies # << >>
    /\ LET reply == Head(replies) IN
       pipeline' = IF reply.block > reply.lastBlockProcessed
                   THEN Append(pipeline, [cmd |-> "set", block |-> reply.block])
                   ELSE pipeline
    /\ replies' = Tail(replies)
    /\ UNCHANGED << claimVars, blacklist, claiming, config, locks, redisVars, inflight, jobs,
                    clock, l1Vars, evmVars, storePendingCalls, lastCall,
                    latestBlock, scan, fetched >>

(***************************************************************************)
(* Specification                                                           *)
(***************************************************************************)
Init ==
    /\ pendingClaimKeys = {}
    /\ claimKeys = {}
    /\ blacklist = {}
    /\ claiming = {}
    /\ pawBalance = << >>
    /\ zsets = {}
    /\ audit = {}
    /\ inflight = {}
    /\ jobs = {}
    /\ clock = 1
    /\ hotBalance = 0
    /\ receivable = {}
    /\ sends = << >>
    /\ wpaw = [e \in Evms |-> 0]
    /\ burns = 0
    /\ storePendingCalls = [p \in Natives \X Evms |-> 0]
    /\ lastCall = NoCall
    /\ locks = {}
    /\ latestBlock = << >>
    /\ pipeline = << >>
    /\ replies = << >>
    /\ scan = NoScan
    /\ fetched = << >>
    /\ config = DeployedConfig

BlockWithHash(n) == CHOOSE b \in L1Blocks : b.hash = << "h", n >>

(***************************************************************************)
(* Deposits: paw_1, claimed by 0xA, deposits one block; the deposit job    *)
(* may fail at the lock of the balance read and is then retried.           *)
(***************************************************************************)
OwnerClaim == Claim("paw_1", "0xA", Sign("0xA", ClaimMessage("paw_1")))

DepositNotification == WsMessageReceived(BlockWithHash(1))

DepositJob ==
    \E j \in jobs, lockError \in BOOLEAN : ProcessUserDeposit(j, lockError)

StoreCommit == \E s \in inflight : CommitStore(s)

Next ==
    \/ OwnerClaim
    \/ DepositNotification
    \/ DepositJob
    \/ StoreCommit

Spec == Init /\ [][Next]_vars

(***************************************************************************)
(* Withdrawals: paw_1, claimed by 0xA, deposits and withdraws; 0xB         *)
(* requests withdrawals of paw_1 too.                                      *)
(***************************************************************************)
FundingJob == \E j \in jobs : ProcessUserDeposit(j, FALSE)

WithdrawalRequest ==
    \E e \in Evms :
        WithdrawPAW("paw_1", 100, e, Sign(e, WithdrawMessage(100, "paw_1")))

WithdrawalJob ==
    \E j \in jobs, lockError \in BOOLEAN : ProcessWithdrawPAW(j, lockError)

NextWithdrawals ==
    \/ OwnerClaim
    \/ DepositNotification
    \/ FundingJob
    \/ StoreCommit
    \/ WithdrawalRequest
    \/ WithdrawalJob

SpecWithdrawals == Init /\ [][NextWithdrawals]_vars

(***************************************************************************)
(* The ledger of one user: paw_1, claimed by 0xA, deposits, withdraws and  *)
(* swaps its balance to wPAW on 0xA and back; no job fails at a lock.      *)
(***************************************************************************)
OwnerWithdrawalRequest ==
    WithdrawPAW("paw_1", 100, "0xA", Sign("0xA", WithdrawMessage(100, "paw_1")))

OwnerWithdrawalJob == \E j \in jobs : ProcessWithdrawPAW(j, FALSE)

SwapRequest ==
    SwapToWPAW("paw_1", 1000, "0xA", Sign("0xA", SwapMessage(1000, "paw_1")))

SwapToWPAWJob == \E j \in jobs : ProcessSwapToWPAW(j, FALSE)

BurnEvent == SwapToPAW("0xA", "paw_1", 1000)

SwapToPAWJob == \E j \in jobs : ProcessSwapToPAW(j, FALSE)

NextLedger ==
    \/ OwnerClaim
    \/ DepositNotification
    \/ FundingJob
    \/ StoreCommit
    \/ OwnerWithdrawalRequest
    \/ OwnerWithdrawalJob
    \/ SwapRequest
    \/ SwapToWPAWJob
    \/ BurnEvent
    \/ SwapToPAWJob

SpecLedger == Init /\ [][NextLedger]_vars

(***************************************************************************)
(* Claims: two evm addresses claim paw_1, whose deposits confirm the       *)
(* pending claim; pending claims expire and the blacklist changes.         *)
(***************************************************************************)
ClaimRequest ==
    \E e \in Evms, author \in Evms :
        Claim("paw_1", e, Sign(author, ClaimMessage("paw_1")))

Expiry == \E k \in pendingClaimKeys : ExpirePendingClaim(k)

BlacklistChange == BlacklistAddress("paw_1")

ClaimedDepositNotification ==
    \E b \in { BlockWithHash(1), BlockWithHash(2) } : WsMessageReceived(b)

NextClaims ==
    \/ ClaimRequest
    \/ Expiry
    \/ BlacklistChange
    \/ ClaimedDepositNotification
    \/ FundingJob
    \/ StoreCommit

SpecClaims == Init /\ [][NextClaims]_vars

(***************************************************************************)
(* Rejected withdrawals: paw_1, claimed by 0xA, deposits 1 PAW, of which   *)
(* the hot wallet keeps 0.2 PAW; withdrawals of paw_1 to 0xA are requested *)
(* for a negative amount, signed by 0xA or by 0xB, and for more than the   *)
(* balance.                                                                *)
(***************************************************************************)
RejectedWithdrawalRequest ==
    \E amount \in { -100, 2000 }, author \in Evms :
        /\ author = "0xB" => amount < 0
        /\ WithdrawPAW("paw_1", amount, "0xA",
                       Sign(author, WithdrawMessage(amount, "paw_1")))

NextRejectedWithdrawals ==
    \/ OwnerClaim
    \/ DepositNotification
    \/ FundingJob
    \/ StoreCommit
    \/ RejectedWithdrawalRequest
    \/ WithdrawalJob

SpecRejectedWithdrawals == Init /\ [][NextRejectedWithdrawals]_vars

(***************************************************************************)
(* Pending withdrawals: paw_1 requests one withdrawal of 0.3 PAW, which is *)
(* more than the hot wallet holds before and after the deposit of 1 PAW.   *)
(***************************************************************************)
LargeWithdrawalRequest ==
    /\ \A j \in jobs : j.name # "paw-withdrawal"
    /\ WithdrawPAW("paw_1", 300, "0xA",
                   Sign("0xA", WithdrawMessage(300, "paw_1")))

NextPendingWithdrawals ==
    \/ OwnerClaim
    \/ DepositNotification
    \/ FundingJob
    \/ StoreCommit
    \/ LargeWithdrawalRequest
    \/ WithdrawalJob

SpecPendingWithdrawals == Init /\ [][NextPendingWithdrawals]_vars

(***************************************************************************)
(* Rejected swaps: paw_1, claimed by 0xA, deposits 1 PAW; 0xA and 0xB ask  *)
(* to swap 1 PAW of paw_1 to wPAW, which is more than the balance before   *)
(* the deposit and after a swap, and 0xA asks to swap a negative amount;   *)
(* each request is signed by its requester.                                *)
(***************************************************************************)
CheckedSwapRequest ==
    \E amount \in { -1000, 1000 }, e \in Evms :
        /\ e = "0xB" => amount > 0
        /\ SwapToWPAW("paw_1", amount, e,
                      Sign(e, SwapMessage(amount, "paw_1")))

CheckedSwapJob ==
    \E j \in jobs, lockError \in BOOLEAN : ProcessSwapToWPAW(j, lockError)

NextSwapChecks ==
    \/ OwnerClaim
    \/ DepositNotification
    \/ FundingJob
    \/ StoreCommit
    \/ CheckedSwapRequest
    \/ CheckedSwapJob

SpecSwapChecks == Init /\ [][NextSwapChecks]_vars

(***************************************************************************)
(* Burns: paw_1, claimed by 0xA, deposits 1 PAW and swaps its balance      *)
(* to wPAW, one swap at a time; 0xA burns the wPAW for paw_1. The burn is  *)
(* handed off by the live listener and again by the scan of the blocks,    *)
(* its job is run again after a failure to read the balance, and its       *)
(* completed job leaves the queue.                                         *)
(***************************************************************************)
NextSwapRequest ==
    /\ \A j \in jobs : j.name = "swap-paw-to-wpaw" => j.state = "completed"
    /\ GetUserAvailableBalance("paw_1") >= 1000
    /\ SwapRequest

BurnRescan ==
    /\ NextSeq(jobs) <= MaxJobs
    /\ \E n \in 1..burns : RescanSwapToPAW("0xA", "paw_1", 1000, n)

BurnJob ==
    /\ Cardinality(inflight) < MaxInFlight
    /\ \E j \in jobs, lockError \in BOOLEAN : ProcessSwapToPAW(j, lockError)

CompletedBurnJobRemoved ==
    \E j \in jobs : j.name = "swap-wpaw-to-paw" /\ RemoveCompleted(j)

NextBurns ==
    \/ OwnerClaim
    \/ DepositNotification
    \/ FundingJob
    \/ StoreCommit
    \/ NextSwapRequest
    \/ CheckedSwapJob
    \/ BurnEvent
    \/ BurnRescan
    \/ BurnJob
    \/ CompletedBurnJobRemoved

SpecBurns == Init /\ [][NextBurns]_vars

(***************************************************************************)
(* Deposits of an unclaimed wallet: paw_1, claimed by 0xA, deposits 1 PAW, *)
(* of which the hot wallet keeps 0.2 PAW; paw_2, which nobody claims,      *)
(* deposits 0.1 PAW. A job can fail at the read of the balance.            *)
(***************************************************************************)
UnclaimedDepositNotification ==
    \E n \in { 1, 4 } : WsMessageReceived(BlockWithHash(n))

NextUnclaimedDeposits ==
    \/ OwnerClaim
    \/ UnclaimedDepositNotification
    \/ DepositJob
    \/ StoreCommit

SpecUnclaimedDeposits == Init /\ [][NextUnclaimedDeposits]_vars

(***************************************************************************)
(* Decimals: paw_1, claimed by 0xA, deposits 1 PAW, 1.466 PAW and          *)
(* 1.000000000000000001 PAW; no job fails at a lock.                       *)
(***************************************************************************)
DecimalDepositNotification ==
    \E n \in { 1, 5, 6 } : WsMessageReceived(BlockWithHash(n))

NextDecimals ==
    \/ OwnerClaim
    \/ DecimalDepositNotification
    \/ FundingJob
    \/ StoreCommit

SpecDecimals == Init /\ [][NextDecimals]_vars

(***************************************************************************)
(* Contention: paw_1, claimed by 0xA, deposits 1 PAW; the balance lock of  *)
(* paw_1 can be out of reach for the store of the deposit and for the read *)
(* of the balance that ends the job.                                       *)
(***************************************************************************)
StoreLockFailure == \E s \in inflight : LoseStore(s)

NextContention ==
    \/ OwnerClaim
    \/ DepositNotification
    \/ DepositJob
    \/ StoreCommit
    \/ StoreLockFailure

SpecContention == Init /\ [][NextContention]_vars

(***************************************************************************)
(* Sweeps: the bridge starts with the default configuration (minimum 0,    *)
(* ratio 0.2), with minimum 0 and ratio 20, or with minimum 10 and ratio   *)
(* 20, on a hot wallet that holds 0, 5 or 10 PAW; paw_1, claimed by 0xA,   *)
(* deposits 12 PAW, 4.12 PAW and 0.01 PAW, one deposit at a time. A job    *)
(* can fail at the read of the balance.                                    *)
(***************************************************************************)
InitSweeps ==
    /\ pendingClaimKeys = {}
    /\ claimKeys = {}
    /\ blacklist = {}
    /\ claiming = {}
    /\ pawBalance = << >>
    /\ zsets = {}
    /\ audit = {}
    /\ inflight = {}
    /\ jobs = {}
    /\ clock = 1
    /\ hotBalance \in { 0, 5000, 10000 }
    /\ receivable = {}
    /\ sends = << >>
    /\ wpaw = [e \in Evms |-> 0]
    /\ burns = 0
    /\ storePendingCalls = [p \in Natives \X Evms |-> 0]
    /\ lastCall = NoCall
    /\ locks = {}
    /\ latestBlock = << >>
    /\ pipeline = << >>
    /\ replies = << >>
    /\ scan = NoScan
    /\ fetched = << >>
    /\ config \in { Config(0, 2), Config(0, 200), Config(10000, 200) }

SweptDepositNotification ==
    /\ HasPendingClaim("paw_1") \/ IsClaimed("paw_1")
    /\ \A j \in jobs : j.state \in { "completed", "failed" }
    /\ inflight = {}
    /\ \E n \in { 7, 8, 9 } : WsMessageReceived(BlockWithHash(n))

NextSweeps ==
    \/ OwnerClaim
    \/ SweptDepositNotification
    \/ DepositJob
    \/ StoreCommit

SpecSweeps == InitSweeps /\ [][NextSweeps]_vars

(***************************************************************************)
(* Scan: one bc-scan job over the blocks 1..2500, which hold no SwapToPaw  *)
(* event; a slice can fail, and the job is then retried.                   *)
(***************************************************************************)
ScanAdded == AddScan(1, 2500)

ScanSlice == \E fails \in BOOLEAN : ProcessBlocksSlice({}, fails)

NextScan ==
    \/ ScanAdded
    \/ ProcessBlocks
    \/ ScanSlice
    \/ RedisExecutes
    \/ SetLastBlockchainBlockProcessed

SpecScan == Init /\ [][NextScan]_vars

(***************************************************************************)
(* Enqueues: the ledger of paw_1 with each hand-off to the queue made      *)
(* twice, for one withdrawal and one swap to wPAW: the sweep of the        *)
(* pending blocks finds the deposit the websocket                          *)
(* reported, a second withdrawal or swap request arrives in the            *)
(* millisecond of the first, and the scan of the blocks finds the burn the *)
(* live listener reported.                                                 *)
(***************************************************************************)
DepositSweep == ProcessPendingTransactions

RepeatedWithdrawalRequest ==
    /\ \E j \in jobs : j.id = << "paw-withdrawal", "paw_1", clock - 1 >>
    /\ ServiceWithdrawPAW("paw_1", 100, "0xA", clock - 1,
                          Sign("0xA", WithdrawMessage(100, "paw_1")))

RepeatedSwapRequest ==
    /\ \E j \in jobs : j.id = << "swap-paw-to-wpaw", "paw_1", clock - 1 >>
    /\ ServiceSwapToWPAW("paw_1", 1000, "0xA", clock - 1,
                         Sign("0xA", SwapMessage(1000, "paw_1")))

FirstWithdrawalRequest ==
    /\ \A j \in jobs : j.name # "paw-withdrawal"
    /\ OwnerWithdrawalRequest

FirstSwapRequest ==
    /\ \A j \in jobs : j.name # "swap-paw-to-wpaw"
    /\ SwapRequest

NextEnqueues ==
    \/ OwnerClaim
    \/ DepositNotification
    \/ DepositSweep
    \/ FundingJob
    \/ StoreCommit
    \/ FirstWithdrawalRequest
    \/ RepeatedWithdrawalRequest
    \/ OwnerWithdrawalJob
    \/ FirstSwapRequest
    \/ RepeatedSwapRequest
    \/ SwapToWPAWJob
    \/ BurnEvent
    \/ BurnRescan
    \/ SwapToPAWJob

SpecEnqueues == Init /\ [][NextEnqueues]_vars

(***************************************************************************)
(* Properties                                                              *)
(***************************************************************************)
\* The audit hashes of the members of a sorted set
RecordsOf(key) ==
    { a \in audit : \E r \in zsets : r.key = key /\ r.member = a.id }

\* The audit hashes of the swaps to PAW that credit a native address
SwapToPawRecordsOf(pawAddress) ==
    { a \in audit : /\ a.type = "swap-to-paw"
                    /\ a.pawAddress = pawAddress
                    /\ \E r \in zsets : /\ r.key[1] = "swaps:wpaw-to-paw"
                                        /\ r.member = a.id }

\* The balance computed from the records of a native address
ComputedBalance(pawAddress) ==
    SumAmounts(RecordsOf(<< "deposits", pawAddress >>))
        + SumAmounts(SwapToPawRecordsOf(pawAddress))
        - SumAmounts(RecordsOf(<< "withdrawals", pawAddress >>))
        - SumAmounts(RecordsOf(<< "swaps:paw-to-wpaw", pawAddress >>))

\* C1 -- Balance conservation (I1): in every reachable state the stored
\* balance of each native address equals the sum of its stored deposit
\* records and of the swap-to-native records crediting it, minus the sum of
\* its stored withdrawal and swap-to-wrapped records.
BalanceConservation ==
    \A u \in Natives :
        GetUserAvailableBalance(u) = ComputedBalance(ToLowerCase(u))

\* C2 -- Non-negativity (I2): the stored balance of every native address is
\* >= 0 after every commit of a balance, for any interleaving of withdrawal
\* and swap-to-wrapped jobs on the same address.
NonNegativeBalance ==
    \A u \in Natives : GetUserAvailableBalance(u) >= 0

\* The confirmed claims of a native address
ClaimsOf(pawAddress) ==
    { k \in claimKeys : k[1] = ToLowerCase(pawAddress) }

\* C3 -- Single owner (I3): in every reachable state at most one confirmed
\* claim (native, evm) exists per native address, whatever the sequence of
\* claim requests, pending-claim expiries and deposits.
SingleOwner ==
    \A n \in Natives : Cardinality(ClaimsOf(n)) <= 1

ValidClaimSignature(pawWallet, blockchainWallet) ==
    Sign(blockchainWallet, ClaimMessage(pawWallet))

\* The native address has a stored pending claim to another evm address
PendingClaimOfAnother(pawWallet, blockchainWallet) ==
    \E k \in PendingClaimsOf(pawWallet) : k[2] # ToLowerCase(blockchainWallet)

AlreadyDoneOnceConfirmed ==
    \A n \in Natives, a \in Evms :
        HasClaim(n, a) =>
            ClaimResponseOf(n, a, ValidClaimSignature(n, a)) = "AlreadyDone"

\* C5 amended -- Double claim by the same user: once the claim (N, A) is
\* confirmed, and while N is not blacklisted, every further claim(N, A) with
\* a valid signature returns AlreadyDone and does not call the pending-claim
\* store.
DoubleClaim ==
    /\ [](\A n \in Natives, a \in Evms :
            (HasClaim(n, a) /\ ~IsBlacklisted(n)) =>
                ClaimResponseOf(n, a, ValidClaimSignature(n, a)) = "AlreadyDone")
    /\ [][\A n \in Natives, a \in Evms :
            (/\ HasClaim(n, a)
             /\ ~IsBlacklisted(n)
             /\ Claim(n, a, ValidClaimSignature(n, a))) =>
                UNCHANGED << claimVars, storePendingCalls >>]_vars

\* The owner of a confirmed claim, whose pending claim was stored once,
\* claimed again and was answered AlreadyDone
DoubleClaimSeen ==
    /\ lastCall.op = "claim"
    /\ lastCall.resp = "AlreadyDone"
    /\ HasClaim(lastCall.native, lastCall.evm)
    /\ ~IsBlacklisted(lastCall.native)
    /\ storePendingCalls[<< lastCall.native, lastCall.evm >>] = 1

\* C6 -- Blacklist: a claim with a valid signature for a blacklisted native
\* address always returns Blacklisted and leaves the claim store unchanged
\* (no pending claim stored), whatever the claim state of that address.
BlacklistedClaim ==
    /\ [](\A n \in Natives, e \in Evms :
            IsBlacklisted(n) =>
                ClaimResponseOf(n, e, ValidClaimSignature(n, e)) = "Blacklisted")
    /\ [][\A n \in Natives, e \in Evms :
            (IsBlacklisted(n) /\ Claim(n, e, ValidClaimSignature(n, e))) =>
                UNCHANGED << claimVars, storePendingCalls >>]_vars

\* The owner of a confirmed claim of a blacklisted address was answered
\* Blacklisted
BlacklistedClaimSeen ==
    /\ lastCall.op = "claim"
    /\ lastCall.resp = "Blacklisted"
    /\ IsBlacklisted(lastCall.native)
    /\ HasClaim(lastCall.native, lastCall.evm)

\* The L1 blocks recorded as deposits of a native address
DepositedBlocksOf(pawAddress) ==
    { BlockOf(r.member) :
        r \in { x \in zsets : x.key = << "deposits", pawAddress >> } }

\* C7 -- Deposit idempotence (I4): however many times the job of a deposit
\* hash is run, the balance of the sender is increased by the amount of the
\* deposit exactly once: with deposits alone, the balance is the sum of the
\* amounts of the recorded blocks.
DepositIdempotence ==
    \A u \in Natives :
        GetUserAvailableBalance(u) =
            SumAmounts(DepositedBlocksOf(ToLowerCase(u)))

\* The L1 sends made for the withdrawal (native, ts)
WithdrawalSends(pawWallet, timestamp) ==
    { i \in 1..Len(sends) : /\ sends[i].kind = "withdrawal"
                            /\ sends[i].pawWallet = pawWallet
                            /\ sends[i].timestamp = timestamp }

\* The withdrawal records stored for the withdrawal (native, ts)
WithdrawalRecords(pawWallet, timestamp) ==
    { r \in zsets : /\ r.key = << "withdrawals", ToLowerCase(pawWallet) >>
                    /\ r.score = timestamp }

\* C8 -- Idempotent withdrawal: when the withdrawal (native, ts) has been
\* processed successfully, processing it again fails with "already
\* processed": a run of its job that sends is the only one that sent.
IdempotentWithdrawal ==
    (lastCall.op = "paw-withdrawal" /\ lastCall.resp = "sent") =>
        Cardinality(WithdrawalSends(lastCall.native, lastCall.ts)) = 1

\* C9 -- At-most-once withdrawal: for every withdrawal request (native, ts),
\* across all the attempts of its job, at most one L1 send is made and the
\* balance is debited at most once.
AtMostOnceWithdrawal ==
    \A n \in Natives, ts \in 1..(MaxClock + 1) :
        /\ Cardinality(WithdrawalSends(n, ts)) <= 1
        /\ Cardinality(WithdrawalRecords(n, ts)) <= 1

\* C10 -- Withdrawal ownership: a withdrawal job for (native, evm) fails,
\* with no L1 send and no pending withdrawal enqueued, whenever the native
\* address has no confirmed claim to that evm address.
WithdrawalOwnership ==
    (lastCall.op = "paw-withdrawal" /\ ~HasClaim(lastCall.native, lastCall.evm))
        => lastCall.resp \notin {"sent", "pending", "replaced"}


\* The pending-withdrawal jobs of a queue
PendingWithdrawalJobs(q) == { j \in q : j.id[1] = "pending-paw-withdrawal" }

\* A withdrawal job leaves the L1 wallet, the queue of pending withdrawals and
\* the ledger, detached stores included, as they were
NoWithdrawalEffect ==
    /\ UNCHANGED << l1Vars, inflight, redisVars >>
    /\ PendingWithdrawalJobs(jobs') = PendingWithdrawalJobs(jobs)

\* A withdrawal not processed yet whose signature, when it has one, is by the
\* blockchain wallet it names
AuthenticWithdrawal(w) ==
    /\ ~ContainsUserWithdrawalRequest(w.pawWallet, w.timestamp)
    /\ \/ w.signature = NoSignature
       \/ CheckSignature(w.blockchainWallet, w.signature,
                         WithdrawMessage(w.amount, w.pawWallet))

\* C11: a withdrawal job whose amount is negative fails without an L1 send,
\* a pending withdrawal or a stored withdrawal, whatever the balance of the
\* user and of the hot wallet, and the error is the "negative" one when the
\* withdrawal is authentic.
NegativeWithdrawal ==
    [][\A j \in jobs, lockError \in BOOLEAN :
         (ProcessWithdrawPAW(j, lockError) /\ j.data.amount < 0) =>
             /\ lastCall'.job = "failed"
             /\ NoWithdrawalEffect
             /\ AuthenticWithdrawal(j.data) => lastCall'.resp = "negative"]_vars

\* A negative withdrawal was rejected while the user had a balance and the
\* hot wallet had funds
NegativeWithdrawalSeen ==
    /\ lastCall.op = "paw-withdrawal"
    /\ lastCall.resp = "negative"
    /\ GetUserAvailableBalance(lastCall.native) > 0
    /\ hotBalance > 0

\* C12: a withdrawal job for more than the ledger balance of the user fails
\* with InsufficientBalance, before the hot wallet is looked at: no L1 send,
\* no pending withdrawal, no stored withdrawal, and the balance is unchanged.
InsufficientUserBalance ==
    [][\A j \in jobs, lockError \in BOOLEAN :
         (/\ ProcessWithdrawPAW(j, lockError)
          /\ AuthenticWithdrawal(j.data)
          /\ j.data.amount >= 0
          /\ j.data.amount > GetUserAvailableBalance(j.data.pawWallet)) =>
             /\ lastCall'.resp = "InsufficientBalance"
             /\ lastCall'.job = "failed"
             /\ NoWithdrawalEffect]_vars

\* A withdrawal for more than the balance of a funded user, and for more than
\* the hot wallet holds, failed with InsufficientBalance
InsufficientUserBalanceSeen ==
    /\ lastCall.op = "paw-withdrawal"
    /\ lastCall.resp = "InsufficientBalance"
    /\ GetUserAvailableBalance(lastCall.native) > 0
    /\ \E j \in jobs : /\ j.name = "paw-withdrawal"
                       /\ j.data.timestamp = lastCall.ts
                       /\ j.data.amount > hotBalance
                       /\ hotBalance > 0

\* The id of the pending-withdrawal job that addPawUserPendingWithdrawal adds
\* for a withdrawal
PendingWithdrawalId(w) ==
    << "pending-paw-withdrawal", w.pawWallet, w.timestamp, w.attempt + 1 >>

\* C13: a withdrawal job of an authentic withdrawal whose amount is at most
\* the balance of the user and more than the hot wallet holds leaves exactly
\* one pending withdrawal for its next attempt in the queue, adds no other
\* job, makes no L1 send, stores no withdrawal and leaves the balance as it is.
InsufficientHotLiquidity ==
    [][\A j \in jobs, lockError \in BOOLEAN :
         (/\ ProcessWithdrawPAW(j, lockError)
          /\ AuthenticWithdrawal(j.data)
          /\ j.data.amount >= 0
          /\ j.data.amount <= GetUserAvailableBalance(j.data.pawWallet)
          /\ j.data.amount > hotBalance) =>
             /\ Cardinality({ k \in jobs' :
                                /\ k.id = PendingWithdrawalId(j.data)
                                /\ k.state = "delayed"
                                /\ k.data.amount = j.data.amount
                                /\ k.data.attempt = j.data.attempt + 1 }) = 1
             /\ { k.id : k \in jobs' } \ { k.id : k \in jobs }
                    \subseteq { PendingWithdrawalId(j.data) }
             /\ UNCHANGED << l1Vars, inflight, redisVars >>]_vars

\* A withdrawal of a funded user was put in the pending withdrawals because
\* the hot wallet held less: nothing was sent and nothing was stored for it
InsufficientHotLiquiditySeen ==
    /\ lastCall.op = "paw-withdrawal"
    /\ lastCall.resp = "pending"
    /\ hotBalance > 0
    /\ \E k \in PendingWithdrawalJobs(jobs) :
          /\ k.data.timestamp = lastCall.ts
          /\ k.data.amount <= GetUserAvailableBalance(lastCall.native)
          /\ k.data.amount > hotBalance
    /\ WithdrawalSends(lastCall.native, lastCall.ts) = {}
    /\ WithdrawalRecords(lastCall.native, lastCall.ts) = {}

\* A swap job creates no mint receipt and leaves the ledger, detached stores
\* included, as it was
NoSwapEffect == UNCHANGED << redisVars, inflight, wpaw, clock >>

\* The signature of a swap is by the blockchain wallet it names, over its
\* amount and its PAW wallet
ValidSwapSignature(swap) ==
    CheckSignature(swap.blockchainWallet, swap.signature,
                   SwapMessage(swap.amount, swap.pawWallet))

\* C14: a swap-to-wPAW job (native, evm) with a valid signature by evm fails
\* with InvalidOwner whenever there is no confirmed claim of native by evm,
\* also when native is claimed by another address; no mint receipt is created
\* and the balance is not debited.
SwapWithoutClaim ==
    [][\A j \in jobs, lockError \in BOOLEAN :
         (/\ ProcessSwapToWPAW(j, lockError)
          /\ ValidSwapSignature(j.data)
          /\ ~HasClaim(j.data.pawWallet, j.data.blockchainWallet)) =>
             /\ lastCall'.resp = "InvalidOwner"
             /\ lastCall'.job = "failed"
             /\ NoSwapEffect]_vars

\* A swap of a funded PAW wallet, asked by another address than the one that
\* claimed it, was rejected with InvalidOwner
SwapWithoutClaimSeen ==
    /\ lastCall.op = "swap-paw-to-wpaw"
    /\ lastCall.resp = "InvalidOwner"
    /\ IsClaimed(lastCall.native)
    /\ ~HasClaim(lastCall.native, lastCall.evm)
    /\ \E j \in jobs : /\ j.name = "swap-paw-to-wpaw"
                       /\ j.data.timestamp = lastCall.ts
                       /\ j.data.amount > 0
                       /\ j.data.amount <= GetUserAvailableBalance(lastCall.native)

\* C15: a swap-to-wPAW job whose amount is negative, or more than the ledger
\* balance of the user, fails without a mint receipt, a change of the balance
\* or a stored swap; when the signature is valid and the claim exists the
\* error is the "negative" one, or InsufficientBalance for an amount above
\* the balance.
SwapAmountChecks ==
    [][\A j \in jobs, lockError \in BOOLEAN :
         (/\ ProcessSwapToWPAW(j, lockError)
          /\ \/ j.data.amount < 0
             \/ j.data.amount > GetUserAvailableBalance(j.data.pawWallet)) =>
             /\ lastCall'.job = "failed"
             /\ NoSwapEffect
             /\ (/\ ValidSwapSignature(j.data)
                 /\ HasClaim(j.data.pawWallet, j.data.blockchainWallet)) =>
                    lastCall'.resp = IF j.data.amount < 0 THEN "negative"
                                     ELSE "InsufficientBalance"]_vars

\* The swap-to-wPAW jobs that were run and are to be retried, or have failed
RejectedSwapJobs ==
    { j \in jobs : /\ j.name = "swap-paw-to-wpaw"
                   /\ j.state \in { "delayed", "failed" }
                   /\ j.attemptsMade > 0 }

\* The owner's swap of a negative amount was rejected while the user had a
\* balance, and the owner's swap of more than the balance was rejected
SwapAmountChecksSeen ==
    /\ lastCall.op = "swap-paw-to-wpaw"
    /\ lastCall.resp = "InsufficientBalance"
    /\ hotBalance > 0
    /\ \E j \in RejectedSwapJobs : /\ j.data.timestamp = lastCall.ts
                                   /\ j.data.amount > 0
    /\ \E j \in RejectedSwapJobs : /\ j.data.blockchainWallet = "0xA"
                                   /\ j.data.amount < 0

\* zrank(swaps:wpaw-to-paw:<evm>, hash) != null in the store st
BurnStored(st, blockchainWallet, hash) ==
    ZHasMember(st, << "swaps:wpaw-to-paw", ToLowerCase(blockchainWallet) >>, hash)

\* The detached stores of a burn that have not committed yet
BurnStoresInFlight(hash) ==
    { s \in inflight : s.op.type = "swap-to-paw" /\ s.op.hash = hash }

DepositSends(hash, kind) ==
    { i \in 1..Len(sends) : sends[i].kind = kind /\ sends[i].hash = hash }

\* The deposit jobs that have been run at least once
RunDepositJobs ==
    { j \in jobs : /\ j.name = "paw-deposit"
                   /\ j.state = "completed" \/ j.attemptsMade > 0 }

\* C17: a deposit job of a sender with no pending and no confirmed claim
\* receives the block, then makes exactly one L1 send, which refunds the full
\* amount to the sender; it stores no deposit, leaves the balance as it is
\* and sends nothing to the cold wallet.
UnclaimedDepositRefund ==
    \A j \in RunDepositJobs :
        (~HasPendingClaim(j.data.pawWallet) /\ ~IsClaimed(j.data.pawWallet)) =>
            /\ j.data.hash \notin receivable
            /\ Cardinality(DepositSends(j.data.hash, "refund")) = 1
            /\ \A i \in DepositSends(j.data.hash, "refund") :
                   /\ sends[i].to = j.data.pawWallet
                   /\ sends[i].amount = j.data.amount
            /\ DepositSends(j.data.hash, "cold") = {}
            /\ ~ContainsUserDepositTransaction(j.data.pawWallet, j.data.hash)
            /\ GetUserAvailableBalance(j.data.pawWallet) = 0
            /\ \A s \in inflight : s.op.hash # j.data.hash

\* C18: a deposit job of a claimed sender credits the deposit if and only if
\* its amount has at most two decimal places; a deposit with more than two
\* decimal places is received and refunded in full to the sender with exactly
\* one L1 send, and no deposit is stored for it.
DecimalPolicy ==
    [][\A j \in jobs, lockError \in BOOLEAN :
         (/\ ProcessUserDeposit(j, lockError)
          /\ IsClaimed(j.data.pawWallet) \/ HasPendingClaim(j.data.pawWallet)) =>
             LET b == BlockOf(j.data.hash)
                 twoDecimals == b.amount % 10 = 0 /\ b.wei = 0
                 stores == { s \in inflight' \ inflight : s.op.hash = b.hash }
             IN  /\ b.hash \notin receivable'
                 /\ (stores # {}) <=> twoDecimals
                 /\ ~twoDecimals =>
                       /\ Len(sends') = Len(sends) + 1
                       /\ sends'[Len(sends')] =
                              SendEntry(b.source, b.amount, "refund", b.source,
                                        j.data.timestamp, b.hash)
                       /\ ~ContainsUserDepositTransaction(b.source, b.hash)]_vars

\* C19: when a deposit job runs for a sender that has a pending claim
\* (native, evm), the claim is confirmed before the test of the claim and the
\* block is received; a deposit with at most two decimals is then stored, once,
\* with (sender, amount, ts, hash), by a store that is in flight or has
\* committed when the job ends, and is not refunded.
DepositConfirmsClaim ==
    [][\A j \in jobs, lockError \in BOOLEAN :
         (/\ ProcessUserDeposit(j, lockError)
          /\ \E k \in pendingClaimKeys : k[1] = ToLowerCase(j.data.pawWallet)) =>
             /\ \E k \in pendingClaimKeys :
                   /\ k[1] = ToLowerCase(j.data.pawWallet)
                   /\ claimKeys' = claimKeys \cup {k}
             /\ j.data.hash \notin receivable'
             /\ (j.data.amount % 10 = 0 /\ BlockOf(j.data.hash).wei = 0) =>
                   /\ lastCall'.resp = "accepted"
                   /\ DepositSends(j.data.hash, "refund")' =
                          DepositSends(j.data.hash, "refund")
                   /\ LET op == StoreOp("deposit", j.data.pawWallet, "",
                                         j.data.amount, j.data.timestamp,
                                         j.data.hash)
                          st == ApplyStore(Store, op)
                      IN  IF ContainsUserDepositTransaction(j.data.pawWallet,
                                                            j.data.hash)
                          THEN UNCHANGED << inflight, redisVars >>
                          ELSE \/ /\ inflight' = Fire(inflight, op)
                                  /\ UNCHANGED redisVars
                               \/ /\ inflight' = inflight
                                  /\ pawBalance' = st.bal
                                  /\ zsets' = st.z
                                  /\ audit' = st.a]_vars

\* The first deposit job that ran was of a sender with a pending claim: the
\* claim is confirmed, the pending claim is still there, and the deposit is
\* stored or about to be, not refunded
DepositConfirmsClaimSeen ==
    /\ lastCall.op = "paw-deposit"
    /\ lastCall.resp = "accepted"
    /\ Cardinality(RunDepositJobs) = 1
    /\ \E k \in pendingClaimKeys : k[1] = lastCall.native /\ k \in claimKeys
    /\ \A j \in RunDepositJobs :
          /\ DepositSends(j.data.hash, "refund") = {}
          /\ \E s \in inflight :
                s.op = StoreOp("deposit", j.data.pawWallet, "", j.data.amount,
                               j.data.timestamp, j.data.hash)

\* C20: when the balance lock of the sender cannot be acquired while the
\* deposit is stored, the deposit job fails, so that the queue retries it: a
\* deposit job that has completed without a refund has its deposit credited,
\* or its store is still to commit.
LockContentionSurfaced ==
    \A j \in jobs :
        (/\ j.name = "paw-deposit"
         /\ j.state = "completed"
         /\ DepositSends(j.data.hash, "refund") = {}) =>
            \/ ContainsUserDepositTransaction(j.data.pawWallet, j.data.hash)
            \/ \E s \in inflight : s.op.hash = j.data.hash

\* floor(min(H - M, d)) in whole coins multiplied by (100 - p) / 100, for the
\* total H of the hot wallet and the deposit d, in thousandths of a coin
SplitAmount(H, d) ==
    (Min(H - config.minimum, d) \div 1000) * (1000 - config.ratio)

\* C21 -- Hot/cold split: a run of the deposit processor that credits a deposit
\* d when the hot wallet totals H, pending included, makes exactly one transfer
\* of floor(min(H - M, d)) * (100 - p) / 100 to the cold wallet when H > M and
\* this amount is > 0, and no transfer when H <= M or the amount is 0.
HotColdSplit ==
    [][\A j \in jobs, lockError \in BOOLEAN :
         (ProcessUserDeposit(j, lockError) /\ lastCall'.resp = "accepted") =>
             LET d == j.data.amount
                 after == GetTotalBalance(hotBalance', receivable')
             IN  \/ /\ sends' = sends
                    /\ after <= config.minimum \/ SplitAmount(after, d) = 0
                 \/ \E amount \in 1..d :
                        /\ sends' = Append(sends,
                               SendEntry(ColdWallet, amount, "cold",
                                         j.data.pawWallet, j.data.timestamp,
                                         j.data.hash))
                        /\ after + amount > config.minimum
                        /\ amount = SplitAmount(after + amount, d)]_vars

\* The cold-wallet entries of the log of L1 sends
ColdSends(log) == { i \in 1..Len(log) : log[i].kind = "cold" }

\* Hot-wallet minimum (I7), C22: every run of the deposit processor that
\* transfers PAW to the cold wallet leaves the hot-wallet total, pending
\* included, at or above the configured minimum: the total before the
\* transfer minus the amount transferred is >= M.
HotWalletMinimumKept ==
    [][\A j \in jobs, lockError \in BOOLEAN :
         (ProcessUserDeposit(j, lockError) /\ ColdSends(sends') # ColdSends(sends)) =>
             LET transferred == sends'[Len(sends')].amount
                 before == GetTotalBalance(hotBalance', receivable') + transferred
             IN  /\ transferred > 0
                 /\ before - transferred >= config.minimum]_vars

\* Reached: with a minimum of 10 PAW and 5 PAW in the hot wallet, the deposit
\* of 12 PAW has 5.6 PAW sent to the cold wallet and leaves 11.4 PAW
HotWalletMinimumKeptSeen ==
    /\ config.minimum = 10000
    /\ lastCall.op = "paw-deposit"
    /\ Len(sends) = 1
    /\ sends[1].kind = "cold"
    /\ sends[1].amount = 5600
    /\ GetTotalBalance(hotBalance, receivable) = 11400

\* C23 -- Monotone cursor (I5): the persisted scan cursor never decreases,
\* whatever the interleaving of the reads and writes of the calls of
\* setLastBlockchainBlockProcessed issued by the slices.
MonotoneCursor ==
    [][GetLastBlockchainBlockProcessed(latestBlock')
           >= GetLastBlockchainBlockProcessed(latestBlock)]_vars

\* The calls of queryFilter that belong to a slice completed by its run of the
\* job: every call of a run but the last one of a run that failed
CompletedFetches ==
    { i \in 1..Len(fetched) :
        \/ \E k \in (i + 1)..Len(fetched) : fetched[k].attempt = fetched[i].attempt
        \/ scan.state = "completed" /\ fetched[i].attempt = scan.attemptsMade + 1 }

\* C29 -- Catch-up retry covers only the failed suffix: when a run of a bc-scan
\* job fails in slice k after the slices 1..k-1 completed, the retries of the
\* job fetch logs only for blocks above those of the completed slices.
RetryCoversFailedSuffix ==
    \A i \in CompletedFetches, j \in 1..Len(fetched) :
        fetched[j].attempt > fetched[i].attempt =>
            fetched[j].blockFrom > fetched[i].blockTo

\* The queue holds a job under the natural id of an operation
Holds(q, id) == \E j \in q : j.id = id

\* C24 -- Queue-boundary idempotence: the enqueue of a deposit, withdrawal,
\* swap-to-wPAW or swap-to-PAW job under an id the queue holds adds no job and
\* changes no job, and the queue never holds two jobs under one id.
EnqueueIdempotence ==
    /\ [](\A j, k \in jobs : j.id = k.id => j = k)
    /\ [][/\ (/\ ProcessPendingTransactions
              /\ \A h \in receivable :
                     Holds(jobs, << "paw-deposit", BlockOf(h).source, h >>))
                 => jobs' = jobs
          /\ RepeatedWithdrawalRequest => jobs' = jobs
          /\ RepeatedSwapRequest => jobs' = jobs
          /\ \A n \in 1..burns :
                 (/\ RescanSwapToPAW("0xA", "paw_1", 1000, n)
                  /\ Holds(jobs, << "swap-wpaw-to-paw", "0xA", BurnHash(n) >>))
                 => jobs' = jobs]_vars

\* Reached: a second withdrawal request with the timestamp of a withdrawal whose
\* job has completed
EnqueueIdempotenceSeen ==
    /\ lastCall.op = "withdrawPAW"
    /\ \E j \in jobs : /\ j.id = << "paw-withdrawal", "paw_1", lastCall.ts >>
                       /\ j.state = "completed"

\* The ids of the pending-withdrawal jobs that a step adds to the queue
NewPendingWithdrawalIds ==
    { k.id : k \in PendingWithdrawalJobs(jobs') }
        \ { k.id : k \in PendingWithdrawalJobs(jobs) }

EnqueuesReplacement(j, lockError) ==
    /\ ProcessWithdrawPAW(j, lockError)
    /\ lastCall'.resp \in { "pending", "replaced" }
    /\ \E k \in jobs' : k.id = << "pending-paw-withdrawal", j.data.pawWallet,
                                 j.data.timestamp, j.data.attempt + 1 >>

\* The run of job j ended with an error: the job is left for a retry, is
\* failed, or was removed as failed
RunFailed(j) ==
    /\ lastCall'.job = "failed"
    /\ \A k \in jobs' : k.id = j.id => /\ k.state \in { "delayed", "failed" }
                                       /\ k.attemptsMade = j.attemptsMade + 1

\* C26 as stated -- Replaced, not cancelled: whenever a run of a withdrawal
\* job, of the original request or of a delayed retry, finds the hot wallet
\* short and enqueues a replacement, the run fails with the "replaced" error
\* and the job is not completed.
ReplacedNotCancelled ==
    [][\A j \in jobs, lockError \in BOOLEAN :
         EnqueuesReplacement(j, lockError) =>
             /\ lastCall'.resp = "replaced"
             /\ RunFailed(j)]_vars

\* C26 amended: a run of a delayed retry that finds the hot wallet short and
\* enqueues a replacement fails with the "replaced" error and the job is not
\* completed; the run of the original request that enqueues the first pending
\* withdrawal returns a result, and the job is completed unless the read of
\* the balance for that result fails.
RetryReplacedRequestCompleted ==
    [][\A j \in jobs, lockError \in BOOLEAN :
         EnqueuesReplacement(j, lockError) =>
             IF j.data.attempt >= 1
             THEN /\ lastCall'.resp = "replaced"
                  /\ RunFailed(j)
             ELSE /\ lastCall'.resp = "pending"
                  /\ IF lockError
                     THEN RunFailed(j)
                     ELSE /\ lastCall'.job = "completed"
                          /\ \E k \in jobs' : /\ k.id = j.id
                                              /\ k.state = "completed"]_vars

\* Reached: the job of the original request is completed, and the pending
\* withdrawal of attempt 1 that replaced it has failed as replaced by the one
\* of attempt 2
RetryReplacedRequestCompletedSeen ==
    /\ lastCall.op = "paw-withdrawal"
    /\ lastCall.resp = "replaced"
    /\ lastCall.job = "failed"
    /\ \E k \in jobs : /\ k.id[1] = "paw-withdrawal"
                       /\ k.state = "completed"
                       /\ k.data.timestamp = lastCall.ts
    /\ \E k \in PendingWithdrawalJobs(jobs) : /\ k.id[4] = 1
                                              /\ k.state = "delayed"
                                              /\ k.attemptsMade = 1
    /\ \E k \in PendingWithdrawalJobs(jobs) : /\ k.id[4] = 2
                                              /\ k.attemptsMade = 0

(***************************************************************************)
(* Queue: the amount of the pending withdrawals                            *)
(***************************************************************************)
\* Bound: the most jobs of the queue that the amount is computed from
MaxQueued == 4

\* The jobs of q in one state, in the order in which they were added
RECURSIVE JobsInState(_, _)
JobsInState(q, state) ==
    LET S == { j \in q : j.state = state }
    IN  IF S = {} THEN << >>
        ELSE LET first == CHOOSE j \in S : \A k \in S : j.seq <= k.seq
             IN  << first >> \o JobsInState(q \ {first}, state)

\* Queue.getWaiting and Queue.getDelayed
GetWaiting(q) == JobsInState(q, "waiting")
GetDelayed(q) == JobsInState(q, "delayed")

\* job.id.startsWith("pending-" + OperationsNames.PawWithdrawal)
StartsWithPendingWithdrawal(job) == job.id[1] = "pending-paw-withdrawal"

\* reduce((acc, amount) => acc.add(amount), BigNumber.from(0))
RECURSIVE Reduce(_, _)
Reduce(amounts, acc) ==
    IF amounts = << >> THEN acc
    ELSE Reduce(Tail(amounts), acc + Head(amounts))

\* A variant of getPendingWithdrawalsAmount that reads the delayed jobs only
GetPendingWithdrawalsAmountOfDelayed(q) ==
    LET allJobs == GetDelayed(q)
        pending == SelectSeq(allJobs, StartsWithPendingWithdrawal)
    IN  Reduce([i \in 1..Len(pending) |-> pending[i].data.amount], 0)

\* RedisProcessingQueue.getPendingWithdrawalsAmount
GetPendingWithdrawalsAmount(q) ==
    LET allJobs == GetWaiting(q) \o GetDelayed(q)
        pending == SelectSeq(allJobs, StartsWithPendingWithdrawal)
    IN  Reduce([i \in 1..Len(pending) |-> pending[i].data.amount], 0)

\* HTTP GET /withdrawals/pending
PendingWithdrawals ==
    /\ lastCall' = [op |-> "pendingWithdrawals", native |-> "", evm |-> "",
                    ts |-> 0, resp |-> "", job |-> "",
                    amount |-> GetPendingWithdrawalsAmount(jobs)]
    /\ UNCHANGED << claimVars, blacklist, claiming, config, locks, scanVars, redisVars, inflight,
                    jobs, clock, l1Vars, evmVars, storePendingCalls >>

\* A job as the queue holds it
QueuedJob(id, amount, attempt, state, delay, attemptsMade, seq) ==
    [id |-> id, name |-> "paw-withdrawal",
     data |-> OperationData(id[2], amount, "0xA", NoSignature, id[3], attempt,
                            NoHash),
     state |-> state, delay |-> delay, attemptsMade |-> attemptsMade,
     seq |-> seq]

\* The jobs that the queues of the initial states are made of: pending
\* withdrawals that wait for their delay or for a retry, that were promoted,
\* that a worker is running and that are completed, and withdrawal requests
\* that wait, that wait for a retry and that have failed
QueuedJobs ==
    { QueuedJob(<< "pending-paw-withdrawal", "paw_1", 1, 1 >>, 300, 1,
                "delayed", PendingWithdrawalRetryDelay, 1, 1),
      QueuedJob(<< "pending-paw-withdrawal", "paw_1", 1, 2 >>, 300, 2,
                "delayed", 2 * PendingWithdrawalRetryDelay, 0, 2),
      QueuedJob(<< "pending-paw-withdrawal", "paw_2", 2, 1 >>, 150, 1,
                "waiting", PendingWithdrawalRetryDelay, 0, 3),
      QueuedJob(<< "pending-paw-withdrawal", "paw_2", 3, 1 >>, 70, 1,
                "completed", PendingWithdrawalRetryDelay, 0, 4),
      QueuedJob(<< "pending-paw-withdrawal", "paw_2", 4, 1 >>, 90, 1,
                "active", PendingWithdrawalRetryDelay, 0, 5),
      QueuedJob(<< "paw-withdrawal", "paw_1", 5 >>, 40, 0, "waiting", 0, 0, 6),
      QueuedJob(<< "paw-withdrawal", "paw_2", 6 >>, 25, 0, "delayed", 0, 1, 7),
      QueuedJob(<< "paw-withdrawal", "paw_2", 7 >>, 15, 0, "failed", 0, 3, 8) }

InitPendingAmounts ==
    /\ pendingClaimKeys = {}
    /\ claimKeys = {}
    /\ blacklist = {}
    /\ claiming = {}
    /\ pawBalance = << >>
    /\ zsets = {}
    /\ audit = {}
    /\ inflight = {}
    /\ jobs \in { q \in SUBSET QueuedJobs : Cardinality(q) <= MaxQueued }
    /\ clock = 1
    /\ hotBalance = 0
    /\ receivable = {}
    /\ sends = << >>
    /\ wpaw = [e \in Evms |-> 0]
    /\ burns = 0
    /\ storePendingCalls = [p \in Natives \X Evms |-> 0]
    /\ lastCall = NoCall
    /\ locks = {}
    /\ latestBlock = << >>
    /\ pipeline = << >>
    /\ replies = << >>
    /\ scan = NoScan
    /\ fetched = << >>
    /\ config = DeployedConfig

\* The queue moves a delayed job whose delay has elapsed to the waiting jobs
PromoteDelayed ==
    /\ \E j \in jobs :
          /\ j.state = "delayed"
          /\ jobs' = (jobs \ {j})
                         \cup { [j EXCEPT !.state = "waiting",
                                          !.seq = NextSeq(jobs)] }
    /\ UNCHANGED << claimVars, blacklist, claiming, config, locks, scanVars, redisVars, inflight,
                    clock, l1Vars, evmVars, storePendingCalls, lastCall >>

NextPendingAmounts ==
    \/ PendingWithdrawals
    \/ PromoteDelayed

SpecPendingAmounts == InitPendingAmounts /\ [][NextPendingAmounts]_vars

\* Sum of the amounts of the withdrawals of a set of jobs
RECURSIVE SumOfWithdrawals(_)
SumOfWithdrawals(S) ==
    IF S = {} THEN 0
    ELSE LET j == CHOOSE k \in S : TRUE
         IN  j.data.amount + SumOfWithdrawals(S \ {j})

TwoDepositNotifications ==
    \E n \in { 1, 2 } : WsMessageReceived(BlockWithHash(n))

NextLinearise ==
    \/ OwnerClaim
    \/ TwoDepositNotifications
    \/ FundingJob
    \/ StoreCommit
    \/ SwapRequest
    \/ SwapToWPAWJob

SpecLinearise == Init /\ [][NextLinearise]_vars

\* The balance of a wallet with the deposits credited whose stores are fired
\* and have not committed
BalanceWithDepositsInFlight(pawAddress) ==
    GetUserAvailableBalance(pawAddress)
        + SumAmounts({ s.op : s \in { t \in inflight :
                                        /\ t.op.type = "deposit"
                                        /\ t.op.pawAddress = pawAddress } })

\* C30 -- Deposit and swap-to-wrapped linearise: a swap to wPAW of s that is
\* stored while the store of a deposit of d of the same wallet is in flight
\* takes s, and only s, from the balance of b >= s, so that the balance is
\* b + d - s once both stores are done; neither update is lost.
DepositAndSwapLinearise ==
    [][\A j \in jobs :
         (/\ ProcessSwapToWPAW(j, FALSE)
          /\ lastCall'.resp = "receipt"
          /\ GetUserAvailableBalance(j.data.pawWallet) >= j.data.amount) =>
             BalanceWithDepositsInFlight(j.data.pawWallet)'
                 = BalanceWithDepositsInFlight(j.data.pawWallet)
                       - j.data.amount]_vars

(***************************************************************************)
(* Round trip: paw_1, claimed by 0xA, deposits 1 PAW, swaps it to wPAW,    *)
(* burns the wPAW for PAW and withdraws 1 PAW, on a hot wallet that holds  *)
(* 1 PAW at the start                                                      *)
(***************************************************************************)
InitRoundTrip ==
    /\ pendingClaimKeys = {}
    /\ claimKeys = {}
    /\ blacklist = {}
    /\ claiming = {}
    /\ pawBalance = << >>
    /\ zsets = {}
    /\ audit = {}
    /\ inflight = {}
    /\ jobs = {}
    /\ clock = 1
    /\ hotBalance = 1000
    /\ receivable = {}
    /\ sends = << >>
    /\ wpaw = [e \in Evms |-> 0]
    /\ burns = 0
    /\ storePendingCalls = [p \in Natives \X Evms |-> 0]
    /\ lastCall = NoCall
    /\ locks = {}
    /\ latestBlock = << >>
    /\ pipeline = << >>
    /\ replies = << >>
    /\ scan = NoScan
    /\ fetched = << >>
    /\ config = DeployedConfig

\* The withdrawal of the PAW that the burn gave back is requested
RoundTripWithdrawalRequest ==
    /\ \A j \in jobs : j.name # "paw-withdrawal"
    /\ \E j \in jobs : j.name = "swap-wpaw-to-paw" /\ j.state = "completed"
    /\ ServiceWithdrawPAW("paw_1", 1000, "0xA", clock,
                          Sign("0xA", WithdrawMessage(1000, "paw_1")))

\* The time to live of a lock that was not unlocked has passed
LockExpires ==
    /\ \E lock \in locks : locks' = locks \ { lock }
    /\ UNCHANGED << claimVars, blacklist, claiming, config, scanVars, redisVars, inflight,
                    jobs, clock, l1Vars, evmVars, storePendingCalls, lastCall >>

NextRoundTrip ==
    \/ OwnerClaim
    \/ DepositNotification
    \/ FundingJob
    \/ StoreCommit
    \/ FirstSwapRequest
    \/ SwapToWPAWJob
    \/ BurnEvent
    \/ SwapToPAWJob
    \/ RoundTripWithdrawalRequest
    \/ OwnerWithdrawalJob
    \/ LockExpires

SpecRoundTrip == InitRoundTrip /\ [][NextRoundTrip]_vars

\* The job with the name given has run once, to its end
Completed(name) ==
    \E j \in jobs : /\ j.name = name
                     /\ j.state = "completed"
                     /\ j.attemptsMade = 0

\* The deposit, the swap to wPAW, the burn, the swap to PAW and the withdrawal
\* of 1 PAW are done, one after the other, and their stores are committed
RoundTripDone ==
    /\ Completed("paw-deposit")
    /\ Completed("swap-paw-to-wpaw")
    /\ burns = 1
    /\ Completed("swap-wpaw-to-paw")
    /\ Completed("paw-withdrawal")
    /\ \E i \in 1..Len(sends) : /\ sends[i].kind = "withdrawal"
                                /\ sends[i].amount = 1000
    /\ inflight = {}

ProcessSwapToWPAWStoreFails(j, failure) ==
    /\ Runnable(j)
    /\ j.name = "swap-paw-to-wpaw"
    /\ LET swap == j.data
           pawAddress == ToLowerCase(swap.pawWallet)
           checked == LocksAfterBalanceRead(locks, pawBalance, swap.pawWallet)
           completed == failure = "batch"
       IN
       /\ SwapToWPAWError(swap) = ""
       \* createMintReceipt: uuid = Date.now()
       /\ clock <= MaxClock + 1
       /\ clock' = clock + 1
       /\ locks' = IF completed
                   THEN LocksAfterBalanceRead(checked \ { SwapLock(pawAddress) },
                                              pawBalance, swap.pawWallet)
                   ELSE checked
       \* the receipt is returned to the user by the job result
       /\ wpaw' = IF completed
                  THEN [wpaw EXCEPT ![swap.blockchainWallet] = @ + swap.amount]
                  ELSE wpaw
       /\ jobs' = FinishJob(jobs, j, completed)
       /\ lastCall' = [op |-> "swap-paw-to-wpaw", native |-> swap.pawWallet,
                       evm |-> swap.blockchainWallet, ts |-> swap.timestamp,
                       resp |-> IF completed THEN "receipt" ELSE "LockError",
                       job |-> IF completed THEN "completed" ELSE "failed"]
    /\ UNCHANGED << claimVars, blacklist, claiming, config, scanVars, redisVars, inflight,
                    l1Vars, storePendingCalls, burns >>

SwapStoreFails ==
    \E j \in jobs, failure \in { "lock", "batch" } :
        ProcessSwapToWPAWStoreFails(j, failure)

NextReceipts ==
    \/ OwnerClaim
    \/ DepositNotification
    \/ FundingJob
    \/ StoreCommit
    \/ FirstSwapRequest
    \/ SwapToWPAWJob
    \/ SwapStoreFails

SpecReceipts == Init /\ [][NextReceipts]_vars

\* The swap of a job is stored: its receipt is in the swaps of the wallet
SwapStored(z, swap) ==
    \E r \in z : /\ r.key = << "swaps:paw-to-wpaw", ToLowerCase(swap.pawWallet) >>
                 /\ r.score = swap.timestamp

\* C31 -- A mint receipt is handed back only for a committed debit: a run of a
\* swap job of amount a returns the receipt in the result of the job only if
\* the balance was decreased by a and the swap was stored; when the store
\* fails, the job fails and no receipt is returned.
ReceiptOnlyForDebit ==
    [][\A j \in jobs :
         (/\ \/ \E lockError \in BOOLEAN : ProcessSwapToWPAW(j, lockError)
             \/ \E failure \in { "lock", "batch" } :
                    ProcessSwapToWPAWStoreFails(j, failure)
          /\ wpaw'[j.data.blockchainWallet] > wpaw[j.data.blockchainWallet]) =>
             /\ GetUserAvailableBalance(j.data.pawWallet)'
                    = GetUserAvailableBalance(j.data.pawWallet) - j.data.amount
             /\ SwapStored(zsets', j.data)]_vars

(***************************************************************************)
(* Custody: paw_1, claimed by 0xA, deposits 1 PAW, withdraws and swaps to  *)
(* wPAW and back; paw_2, which nobody claims, deposits 0.1 PAW, and the    *)
(* job of its deposit can fail at the read of the balance and be retried.  *)
(***************************************************************************)
RefundJob ==
    \E j \in jobs, lockError \in BOOLEAN :
        /\ j.data.pawWallet = "paw_2"
        /\ ProcessUserDeposit(j, lockError)

NextCustody ==
    \/ OwnerClaim
    \/ UnclaimedDepositNotification
    \/ FundingJob
    \/ RefundJob
    \/ StoreCommit
    \/ OwnerWithdrawalRequest
    \/ OwnerWithdrawalJob
    \/ SwapRequest
    \/ SwapToWPAWJob
    \/ BurnEvent
    \/ SwapToPAWJob

SpecCustody == Init /\ [][NextCustody]_vars

\* The sends of the hot wallet to users: withdrawals and refunds
UserSends ==
    { [index |-> i, amount |-> sends[i].amount] :
        i \in { k \in 1..Len(sends) : sends[k].kind \in { "withdrawal", "refund" } } }

\* The blocks that the hot wallet has received
ReceivedBlocks ==
    { BlockOf(j.data.hash) : j \in { d \in RunDepositJobs : d.data.hash \notin receivable } }

LateClaim == Claim("paw_2", "0xB", Sign("0xB", ClaimMessage("paw_2")))

NextRefunds ==
    \/ OwnerClaim
    \/ LateClaim
    \/ UnclaimedDepositNotification
    \/ DepositJob
    \/ StoreCommit

SpecRefunds == Init /\ [][NextRefunds]_vars

\* The deposit is credited to its sender, or its store is on its way
Credited(b) ==
    \/ ContainsUserDepositTransaction(b.source, b.hash)
    \/ \E s \in inflight : s.op.type = "deposit" /\ s.op.hash = b.hash

\* C33 -- Refund xor credit: over all the runs of the job of a deposit,
\* retries after a failed run and a claim made between two runs included, the
\* deposit is refunded to its sender or credited to the balance of its
\* sender, never both, and it is refunded at most once.
RefundXorCredit ==
    \A b \in L1Blocks :
        /\ Cardinality(DepositSends(b.hash, "refund")) <= 1
        /\ ~(DepositSends(b.hash, "refund") # {} /\ Credited(b))

(***************************************************************************)
(* Retried swaps: paw_1, claimed by 0xA, deposits 1 PAW and 2 PAW and      *)
(* requests one swap of 1 PAW to wPAW, whose job can fail at the read of   *)
(* the balance that ends it, and is then retried.                          *)
(***************************************************************************)
NextSwapRetries ==
    \/ OwnerClaim
    \/ TwoDepositNotifications
    \/ FundingJob
    \/ StoreCommit
    \/ FirstSwapRequest
    \/ CheckedSwapJob

SpecSwapRetries == Init /\ [][NextSwapRetries]_vars

\* The swaps to wPAW stored for a request of a wallet
SwapRecords(pawWallet, timestamp) ==
    { r \in zsets : /\ r.key = << "swaps:paw-to-wpaw", ToLowerCase(pawWallet) >>
                   /\ r.score = timestamp }

\* C34 -- Swap to wPAW at most once: a request (native, ts) debits the balance
\* at most once and stores at most one swap, with one mint receipt, also when
\* its job fails after the debit was committed and is retried by the queue.
SwapAtMostOnce ==
    \A j \in jobs :
        j.name = "swap-paw-to-wpaw" =>
            Cardinality(SwapRecords(j.data.pawWallet, j.data.timestamp)) <= 1

(***************************************************************************)
(* Concurrent claims: the calls of Service.claim run on one event loop and *)
(* give way to each other at every await of a reply of Redis.              *)
(***************************************************************************)
ClaimCall(pawWallet, blockchainWallet, at) ==
    [pawWallet |-> pawWallet, blockchainWallet |-> blockchainWallet, at |-> at]

\* Service.claim up to the reply of hasPendingClaim, for a call that no check
\* turns down
ClaimChecked(pawWallet, blockchainWallet, signature) ==
    /\ ClaimResponseOf(pawWallet, blockchainWallet, signature) = "Ok"
    /\ \A c \in claiming : c.blockchainWallet # blockchainWallet
    /\ claiming' = claiming \cup { ClaimCall(pawWallet, blockchainWallet, "claim") }
    /\ UNCHANGED << claimVars, blacklist, config, locks, scanVars, redisVars,
                    inflight, jobs, clock, l1Vars, evmVars, storePendingCalls,
                    lastCall >>

\* UsersDepositsService.storePendingClaim up to the reply of hasPendingClaim:
\* false is returned if a pending claim exists, and Service.claim answers Error
PendingClaimRechecked(c) ==
    /\ c \in claiming
    /\ c.at = "claim"
    /\ IF HasPendingClaim(c.pawWallet)
       THEN /\ claiming' = claiming \ {c}
            /\ lastCall' = [op |-> "claim", native |-> c.pawWallet,
                            evm |-> c.blockchainWallet, ts |-> 0,
                            resp |-> "Error", job |-> ""]
       ELSE /\ claiming' = (claiming \ {c}) \cup
                    { ClaimCall(c.pawWallet, c.blockchainWallet, "store") }
            /\ UNCHANGED lastCall
    /\ UNCHANGED << claimVars, blacklist, config, locks, scanVars, redisVars,
                    inflight, jobs, clock, l1Vars, evmVars, storePendingCalls >>

\* RedisUsersDepositsStorage.storePendingClaim, and Service.claim answers Ok
PendingClaimStored(c) ==
    /\ c \in claiming
    /\ c.at = "store"
    /\ storePendingCalls[<< c.pawWallet, c.blockchainWallet >>] < MaxStoreCalls
    /\ claiming' = claiming \ {c}
    /\ pendingClaimKeys' = pendingClaimKeys \cup
           { << ToLowerCase(c.pawWallet), ToLowerCase(c.blockchainWallet) >> }
    /\ storePendingCalls' =
           [storePendingCalls EXCEPT
               ![<< c.pawWallet, c.blockchainWallet >>] = @ + 1]
    /\ lastCall' = [op |-> "claim", native |-> c.pawWallet,
                    evm |-> c.blockchainWallet, ts |-> 0, resp |-> "Ok",
                    job |-> ""]
    /\ UNCHANGED << claimKeys, blacklist, config, locks, scanVars, redisVars,
                    inflight, jobs, clock, l1Vars, evmVars >>

\* paw_1 is claimed from 0xA and from 0xB, each with its own valid signature
ConcurrentClaim ==
    \E e \in Evms : ClaimChecked("paw_1", e, Sign(e, ClaimMessage("paw_1")))

ClaimRecheck == \E c \in claiming : PendingClaimRechecked(c)

ClaimStore == \E c \in claiming : PendingClaimStored(c)

NextConcurrentClaims ==
    \/ ConcurrentClaim
    \/ ClaimRecheck
    \/ ClaimStore
    \/ Expiry
    \/ DepositNotification
    \/ FundingJob
    \/ StoreCommit

SpecConcurrentClaims == Init /\ [][NextConcurrentClaims]_vars

\* C35 -- Concurrent claims: when two claims of the same native address are
\* made from two evm addresses, each with a valid signature, then in every
\* interleaving at most one of them is answered Ok and at most one pending
\* claim of the native address exists afterwards.
OnePendingClaim ==
    \A n \in Natives : Cardinality(PendingClaimsOf(n)) <= 1

(***************************************************************************)
(* Settling a pending withdrawal: paw_1, claimed by 0xA, deposits 1 PAW    *)
(* and 2 PAW and requests one withdrawal of 0.3 PAW. The worker and the    *)
(* scheduler of the queue keep running the jobs that are due, a store that *)
(* was started is carried out, and no job fails at a lock.                 *)
(***************************************************************************)
NextSettle ==
    \/ OwnerClaim
    \/ TwoDepositNotifications
    \/ FundingJob
    \/ StoreCommit
    \/ LargeWithdrawalRequest
    \/ OwnerWithdrawalJob

SpecSettle ==
    /\ Init
    /\ [][NextSettle]_vars
    /\ WF_vars(OwnerWithdrawalJob)
    /\ WF_vars(StoreCommit)

\* A pending withdrawal of paw_1 is scheduled
PendingPut ==
    \E j \in PendingWithdrawalJobs(jobs) :
        /\ j.state \in { "waiting", "delayed" }
        /\ j.data.pawWallet = "paw_1"
        /\ j.data.attempt < MaxAttempt

\* The hot wallet and the balance of paw_1 cover the withdrawal
Covered ==
    /\ hotBalance >= 300
    /\ GetUserAvailableBalance("paw_1") >= 300

\* The L1 send of the withdrawal is made and the withdrawal is stored
Settled ==
    /\ \E i \in 1..Len(sends) : /\ sends[i].kind = "withdrawal"
                                /\ sends[i].to = "paw_1"
                                /\ sends[i].amount = 300
    /\ \E j \in jobs : /\ j.name = "paw-withdrawal"
                       /\ ContainsUserWithdrawalRequest("paw_1", j.data.timestamp)

ScheduledPendingWithdrawals(q, pawWallet, timestamp) ==
    { j \in PendingWithdrawalJobs(q) : /\ j.state \in { "waiting", "delayed" }
                                       /\ j.data.pawWallet = pawWallet
                                       /\ j.data.timestamp = timestamp }

\* C37 -- A pending withdrawal is counted once: for every withdrawal request
\* (native, ts) at most one pending withdrawal job is waiting or delayed at
\* any time, a replaced job that is scheduled again for a retry included, so
\* that getPendingWithdrawalsAmount counts the amount of the request at most
\* once.
PendingCountedOnce ==
    \A j \in jobs :
        Cardinality(ScheduledPendingWithdrawals(jobs, j.data.pawWallet,
                                                j.data.timestamp)) <= 1

(***************************************************************************)
(* Missed blocks: the deposits of 1 PAW of paw_1 and of 0.1 PAW of paw_2   *)
(* and a send of 5 PAW of the cold wallet to the hot wallet are confirmed  *)
(* while the websocket is down or up; the sweep finds the pending blocks.  *)
(***************************************************************************)
\* The hot wallet has received the block of the cold wallet, the only block
\* that lifts it to 5 PAW: a block is confirmed once
ColdWalletBlockReceived == hotBalance >= BlockWithHash(10).amount

BlockMissed ==
    \E n \in { 1, 4, 10 } :
        /\ n = 10 => ~ColdWalletBlockReceived
        /\ MissedBlock(BlockWithHash(n))

BlockNotified ==
    \E n \in { 1, 4, 10 } :
        /\ n = 10 => ~ColdWalletBlockReceived
        /\ WsMessageReceived(BlockWithHash(n))

NextMissedBlocks ==
    \/ OwnerClaim
    \/ BlockMissed
    \/ BlockNotified
    \/ DepositSweep
    \/ FundingJob
    \/ StoreCommit

SpecMissedBlocks == Init /\ [][NextMissedBlocks]_vars

\* The deposit job of a block, as queued at a time
DepositJobOf(b, timestamp) ==
    [id |-> << "paw-deposit", b.source, b.hash >>, name |-> "paw-deposit",
     data |-> OperationData(b.source, b.amount, "", NoSignature, timestamp, 0,
                            b.hash)]

\* C38 -- The sweep classifies every pending block on its own, as the stream
\* does: a block sent by the hot or the cold wallet is only received, and
\* every other block gets a deposit job of its sender, amount, timestamp and
\* hash, whatever its place in the list of the pending blocks.
SweepClassifiesEveryBlock ==
    [][ProcessPendingTransactions =>
           \A h \in receivable :
               IF SentByBridge(BlockOf(h))
               THEN /\ h \notin receivable'
                    /\ ~\E j \in jobs' : j.data.hash = h
               ELSE \E j \in jobs', t \in 1..clock :
                        /\ j.id = DepositJobOf(BlockOf(h), t).id
                        /\ j.name = "paw-deposit"
                        /\ j.data = DepositJobOf(BlockOf(h), t).data]_vars

(***************************************************************************)
(* Scan of burns: while the bridge was down, 0xA burnt 1 wPAW for paw_1 in *)
(* block 1500. One bc-scan job runs over the blocks 1..2500; a slice can   *)
(* fail, and the add of a job to the queue, which the scan does not await, *)
(* can be rejected.                                                        *)
(***************************************************************************)
\* The block of the n-th SwapToPaw transaction
BurnBlockNumber(n) == 1000 * n + 500

\* The event that processBlocksSlice builds from the log of the n-th burn
SwapToPawEvent(n) ==
    OperationData("paw_1", 1000, "0xA", NoSignature, BlockTimestamp(n), 0,
                  BurnHash(n))

\* wPAW.queryFilter(SwapToPaw, blockFrom, blockTo)
QueryFilter(blockFrom, blockTo) ==
    { SwapToPawEvent(n) : n \in { k \in 1..MaxBurns :
                                    /\ blockFrom <= BurnBlockNumber(k)
                                    /\ BurnBlockNumber(k) <= blockTo } }

\* processBlocksSlice when the adds to the queue of the events in lost are
\* rejected: handleSwapToPawEvents calls the listener and drops the promise of
\* Service.swapToPAW, so that the slice goes on to move the cursor
ProcessBlocksSliceLosing(events, lost) ==
    /\ lost # {}
    /\ lost \subseteq events
    /\ ProcessBlocksSlice(events \ lost, FALSE)

BurnScanSlice ==
    \E fails \in BOOLEAN :
        ProcessBlocksSlice(QueryFilter(scan.blockSliceFrom, scan.blockSliceTo),
                           fails)

BurnScanSliceLosing ==
    \E lost \in SUBSET QueryFilter(scan.blockSliceFrom, scan.blockSliceTo) :
        ProcessBlocksSliceLosing(
            QueryFilter(scan.blockSliceFrom, scan.blockSliceTo), lost)

NextBurnScan ==
    \/ ScanAdded
    \/ ProcessBlocks
    \/ BurnScanSlice
    \/ BurnScanSliceLosing
    \/ RedisExecutes
    \/ SetLastBlockchainBlockProcessed
    \/ SwapToPAWJob

SpecBurnScan == Init /\ [][NextBurnScan]_vars

\* C39 -- No burn is skipped by the cursor: the cursor is moved to the end of
\* a slice only after every SwapToPaw event of the slice was enqueued, so
\* that in every reachable state, after a failed slice or a failed enqueue
\* too, each burn at or below the cursor is enqueued or recorded.
NoBurnSkipped ==
    \A n \in 1..MaxBurns :
        BurnBlockNumber(n) <= GetLastBlockchainBlockProcessed(latestBlock) =>
            \/ Holds(jobs, << "swap-wpaw-to-paw", "0xA", BurnHash(n) >>)
            \/ SwapToPawWasAlreadyDone(SwapToPawEvent(n))

(***************************************************************************)
(* Slices: one bc-scan job over a range of blocks that ends below, at or   *)
(* above a multiple of the size of a slice; no slice fails.                *)
(***************************************************************************)
ScanRanges ==
    { r \in { 0, 1, 1000, 1001 } \X { 0, 1, 999, 1000, 1001, 2000, 2001, 3000 } :
        r[1] <= r[2] }

ScanRangeAdded == \E r \in ScanRanges : AddScan(r[1], r[2])

SliceScanned == ProcessBlocksSlice({}, FALSE)

NextSlices ==
    \/ ScanRangeAdded
    \/ ProcessBlocks
    \/ SliceScanned
    \/ RedisExecutes
    \/ SetLastBlockchainBlockProcessed

SpecSlices == Init /\ [][NextSlices]_vars

\* The slices fetched so far follow each other from the first block of the
\* range, each of 1 to 1000 blocks, and end at the last block of the range
\* when the job completes
SlicesPartitionRange ==
    /\ \A i \in 1..Len(fetched) :
           /\ fetched[i].blockFrom <= fetched[i].blockTo
           /\ fetched[i].blockTo - fetched[i].blockFrom + 1 <= BlockSlice
           /\ fetched[i].blockTo <= scan.blockTo
           /\ fetched[i].blockFrom =
                  IF i = 1 THEN scan.blockFrom ELSE fetched[i - 1].blockTo + 1
    /\ scan.state = "completed" =>
           /\ fetched # << >>
           /\ fetched[Len(fetched)].blockTo = scan.blockTo

\* C40 -- Catch-up slices partition the range: for every from <= to,
\* processBlocks(from, to) scans consecutive slices in ascending order,
\* pairwise disjoint, each of at most 1000 blocks, whose union is the range
\* from..to, and the cursor is advanced to the end of each slice after the
\* slice, so that the cursor is at or above to when the job completes.
CatchUpSlices ==
    /\ SlicesPartitionRange
    /\ scan.state = "completed" =>
           GetLastBlockchainBlockProcessed(latestBlock) >= scan.blockTo

=============================================================================
